---- MODULE Spec2Model ----
(***************************************************************************)
(* Verification model of eerie-viewer-workflows.                           *)
(*                                                                         *)
(* Each component is modelled with its own specification:                  *)
(*   SpecMember  the member keys of eerieview/data_models.py               *)
(*               (from_string, to_string, to_ocean, to_atmos, to_daily);   *)
(*   SpecTrend   the trend estimator of eerieview/trends/regression.py     *)
(*               (mklr, ltr_OLSdofrNaN);                                   *)
(*   SpecApi     compute_trend of eerieview/trends/api.py;                 *)
(*   SpecTime    the time filters and seasonal aggregation of              *)
(*               eerieview/data_processing.py and data_models.py;          *)
(*   SpecSlice   slice_period of eerieview/data_processing.py;             *)
(*   SpecFetch   get_member_dataset and its retry of                       *)
(*               eerieview/product_computation.py;                         *)
(*   SpecRun     get_model_decadal_product and get_model_time_series of    *)
(*               eerieview/product_computation.py;                         *)
(*   SpecOutput  safe_to_netcdf and safe_to_zarr of eerieview/io_utils.py; *)
(*   SpecInput   get_complete_input_dataset of                             *)
(*               eerieview/product_computation.py;                         *)
(*   SpecDriver  the batch drivers of scripts/ and the tests, with the     *)
(*               member lists of eerieview/constants.py and the label      *)
(*               shortening of scripts/upload_to_zarr.py;                  *)
(*   SpecUnits   fix_units of eerieview/data_processing.py;                *)
(*   SpecEke     compute_eke_for_member of scripts/get_monthly_eke.py and  *)
(*               get_diagnostic of eerieview/data_access.py.               *)
(*                                                                         *)
(* Python strings are sequences of one-character strings, so that          *)
(* str.split, str.join and str.replace are computed as Python computes     *)
(* them.                                                                   *)
(***************************************************************************)
EXTENDS Integers, Sequences, FiniteSets, TLC

VARIABLES
    member_str,  \* the identifier string handed to from_string
    cls,         \* the class from_string is called on
    heap,        \* the member objects created so far; an object's identity is its index
    made,        \* for each object of the heap, the call that returned it
    ret,         \* the last call on a member: operation, receiver, outcome, value
    x,           \* ltr_OLSdofrNaN: the time grid
    y,           \* ltr_OLSdofrNaN: the data values
    pc,          \* ltr_OLSdofrNaN: the step to run next, or how the call ended
    fr,          \* ltr_OLSdofrNaN: the local variables; at pc = "return" the tuple returned
    attrs,       \* compute_trend: the dict dataset[varname].attrs of the input dataset
    attrs0,      \* compute_trend: the content of that dict before the first call
    cell_fit,    \* compute_trend: for each cell, what _compute_trend returns for its series
    times,       \* time series: the time axis of the member's dataset
    time_filter, \* time series: the TimeFilter of the loop iteration
    tpc,         \* time series: the next step of the iteration
    ts,          \* time series: the time axes built by the steps taken so far
    tcall,       \* the last call of get_time_filters or get_minvalues and its outcome
    sl_time,     \* slice_period: the time axis of the dataset handed in
    period,      \* slice_period: the (start_year, end_year) handed in
    sl_ret,      \* slice_period: how the call ended, and the time axis of the slice
    catalogue,   \* get_member_dataset: the (member key, raw variable) entries that exist
    request,     \* get_member_dataset: the member, rawname and varname handed in
    fetched,     \* get_member_dataset: how the call ended and the fetches it made
    rn_in,       \* product run: the arguments of get_model_decadal_product / _time_series
    rn,          \* product run: the position and the local variables of the call
    fsys,        \* product run: the output file
    effects,     \* product run: catalogue openings, fetches and file writes so far
    wr_in,       \* safe_to_netcdf / safe_to_zarr: the function called and the paths before the call
    wr,          \* safe_to_netcdf / safe_to_zarr: the position of the call, the final and the temporary path
    gc_in,       \* get_complete_input_dataset: the catalogue and the member, rawname, varname handed in
    gc,          \* get_complete_input_dataset: how the call ended, the datasets and the fetches
    dr_in,       \* batch driver or test: its name, product, variable and what it hands over
    dr,          \* batch driver or test: the position, the member labels collected, the exception
    fu_in,       \* fix_units: the dataset, varname and product handed to the first call
    fu,          \* fix_units: what each call so far returned
    ek_in,       \* compute_eke_for_member: the member and clobber handed in, and the catalogue
    ek,          \* compute_eke_for_member: the files of DIAGSDIR, the calls made so far and what they did
    results      \* compute_trend: the (trend, p_value) returned by each call so far

memberVars == <<member_str, cls, heap, made, ret>>
trendVars == <<x, y, pc, fr>>
apiVars == <<attrs, attrs0, cell_fit, results>>
timeVars == <<times, time_filter, tpc, ts, tcall>>
sliceVars == <<sl_time, period, sl_ret>>
fetchVars == <<catalogue, request, fetched>>
runVars == <<rn_in, rn, fsys, effects>>
outputVars == <<wr_in, wr>>
inputVars == <<gc_in, gc>>
driverVars == <<dr_in, dr>>
unitsVars == <<fu_in, fu>>
ekeVars == <<ek_in, ek>>
vars == <<member_str, cls, heap, made, ret, x, y, pc, fr, attrs, attrs0, cell_fit,
          results, times, time_filter, tpc, ts, tcall, sl_time, period, sl_ret,
          catalogue, request, fetched, rn_in, rn, fsys, effects,
          wr_in, wr,
          gc_in, gc,
          dr_in, dr,
          fu_in, fu,
          ek_in, ek>>
notMember == <<trendVars, apiVars, timeVars, sliceVars, fetchVars, runVars, outputVars, inputVars, driverVars, unitsVars, ekeVars>>
notTrend == <<memberVars, apiVars, timeVars, sliceVars, fetchVars, runVars, outputVars, inputVars, driverVars, unitsVars, ekeVars>>
notApi == <<memberVars, trendVars, timeVars, sliceVars, fetchVars, runVars, outputVars, inputVars, driverVars, unitsVars, ekeVars>>
notTime == <<memberVars, trendVars, apiVars, sliceVars, fetchVars, runVars, outputVars, inputVars, driverVars, unitsVars, ekeVars>>
notSlice == <<memberVars, trendVars, apiVars, timeVars, fetchVars, runVars, outputVars, inputVars, driverVars, unitsVars, ekeVars>>
notFetch == <<memberVars, trendVars, apiVars, timeVars, sliceVars, runVars, outputVars, inputVars, driverVars, unitsVars, ekeVars>>
notRun == <<memberVars, trendVars, apiVars, timeVars, sliceVars, fetchVars, outputVars, inputVars, driverVars, unitsVars, ekeVars>>
notOutput == <<memberVars, trendVars, apiVars, timeVars, sliceVars, fetchVars, runVars, inputVars, driverVars, unitsVars, ekeVars>>
notInput == <<memberVars, trendVars, apiVars, timeVars, sliceVars, fetchVars, runVars, outputVars, driverVars, unitsVars, ekeVars>>
notDriver == <<memberVars, trendVars, apiVars, timeVars, sliceVars, fetchVars, runVars, outputVars, inputVars, unitsVars, ekeVars>>
notUnits == <<memberVars, trendVars, apiVars, timeVars, sliceVars, fetchVars, runVars, outputVars, inputVars, driverVars, ekeVars>>
notEke == <<memberVars, trendVars, apiVars, timeVars, sliceVars, fetchVars, runVars, outputVars, inputVars, driverVars, unitsVars>>

(***************************************************************************)
(* Bounds of the model.                                                    *)
(***************************************************************************)
MaxPieces == 7    \* longest identifier, in dot-separated fields
MaxObjects == 3   \* member objects per run: the parsed one and two derived ones
MaxN == 6         \* longest data series handed to ltr_OLSdofrNaN
NCells == 2       \* spatial cells of the dataset handed to compute_trend
MaxCalls == 2     \* calls of compute_trend on the same dataset object
MaxMonths == 14   \* longest monthly time axis handed to the time series steps
MaxPoints == 3    \* longest time axis handed to slice_period
NMembers == 2     \* members handed to a product run
MaxRuns == 2      \* calls of the product function with the same arguments
NChunks == 3      \* pieces an output file or store is written, copied or removed in

----------------------------------------------------------------------------
(***************************************************************************)
(* Strings.                                                                *)
(***************************************************************************)
Dot == "."

S_empty == <<>>
S_m == <<"m">>
S_atmos == <<"a", "t", "m", "o", "s">>
S_ocean == <<"o", "c", "e", "a", "n">>
S_daily == <<"d", "a", "i", "l", "y">>
S_Amon == <<"A", "m", "o", "n">>
S_Omon == <<"O", "m", "o", "n">>
S_day == <<"d", "a", "y">>
S_Oday == <<"O", "d", "a", "y">>
S_HROday == <<"H", "R", "O", "d", "a", "y">>

\* The CMOR table codes the repository uses.
TableCodes == {S_Amon, S_Omon, S_day, S_Oday, S_HROday}

\* Dot-free field values the identifiers of the model are built from: the
\* fields 4 to 6 (grid, realm, freq or grid, cmor_table) are drawn from
\* SegmentTokens, the first field and those after the sixth from NameTokens;
\* the second and the third field are S_m.
NameTokens == {S_empty, S_m}
SegmentTokens == TableCodes \cup {S_atmos}

Min(a, b) == IF a < b THEN a ELSE b

\* str.split("."): the pieces between the dots; n dots give n + 1 pieces,
\* empty pieces included.
RECURSIVE split_acc(_, _, _)
split_acc(s, cur, acc) ==
    IF s = <<>> THEN Append(acc, cur)
    ELSE IF Head(s) = Dot THEN split_acc(Tail(s), <<>>, Append(acc, cur))
    ELSE split_acc(Tail(s), Append(cur, Head(s)), acc)

\* A split that drops the empty pieces, as str.split() without a separator does.
split_no_empty(s) == SelectSeq(split_acc(s, <<>>, <<>>), LAMBDA piece : piece # <<>>)

split(s) == split_acc(s, <<>>, <<>>)

\* ".".join(pieces)
RECURSIVE join(_)
join(pieces) ==
    IF pieces = <<>> THEN <<>>
    ELSE IF Len(pieces) = 1 THEN pieces[1]
    ELSE pieces[1] \o <<Dot>> \o join(Tail(pieces))

\* str.replace(old, new) for one-character old and new: every occurrence.
str_replace(s, old, new) == [i \in 1..Len(s) |-> IF s[i] = old THEN new ELSE s[i]]

----------------------------------------------------------------------------
(***************************************************************************)
(* Member, EERIEMember, CmorEerieMember.                                   *)
(***************************************************************************)
Classes == {"Member", "EERIEMember", "CmorEerieMember"}

\* dataclasses.fields(self): the fields in declaration order, base class first.
fields(c) ==
    CASE c = "Member" -> <<"model", "simulation", "version", "grid">>
      [] c = "EERIEMember" -> <<"model", "simulation", "version", "grid", "realm", "freq">>
      [] c = "CmorEerieMember" -> <<"model", "simulation", "version", "grid", "cmor_table">>

\* The ClassVar npieces of each class.
npieces(c) ==
    CASE c = "Member" -> 4
      [] c = "EERIEMember" -> 6
      [] c = "CmorEerieMember" -> 5

FieldNames(c) == {fields(c)[i] : i \in 1..Len(fields(c))}

\* cls(*pieces): the generated __init__ binds the positional arguments to the
\* fields in declaration order.
construct(c, pieces) ==
    [cls |-> c,
     attrs |-> [f \in FieldNames(c) |->
                   pieces[CHOOSE i \in 1..Len(fields(c)) : fields(c)[i] = f]]]

RuntimeError == [kind |-> "raise", val |-> "RuntimeError"]
NotImplemented == [kind |-> "raise", val |-> "NotImplementedError"]
Returns(v) == [kind |-> "return", val |-> v]

\* A from_string that only rejects too few pieces and ignores the surplus.
from_string_truncating(c, s) ==
    LET pieces == split(s)
    IN IF Len(pieces) < npieces(c) THEN RuntimeError
       ELSE Returns(construct(c, SubSeq(pieces, 1, npieces(c))))

\* Member.from_string: the object, or the RuntimeError of a wrong field count.
from_string(c, s) ==
    LET pieces == split(s)
    IN IF Len(pieces) # npieces(c) THEN RuntimeError
       ELSE Returns(construct(c, pieces))

\* Member.to_string
to_string(self) ==
    join([i \in 1..Len(fields(self.cls)) |-> self.attrs[fields(self.cls)[i]]])

\* copy.replace(self, field=value): a new object of the same class; self is
\* left as it is.
replace(self, field, value) ==
    [cls |-> self.cls, attrs |-> [self.attrs EXCEPT ![field] = value]]

to_ocean(self) ==
    CASE self.cls = "EERIEMember" -> Returns(replace(self, "realm", S_ocean))
      [] self.cls = "CmorEerieMember" ->
            Returns(replace(self, "cmor_table",
                            str_replace(self.attrs.cmor_table, "A", "O")))
      [] OTHER -> NotImplemented

to_atmos(self) ==
    CASE self.cls = "EERIEMember" -> Returns(replace(self, "realm", S_atmos))
      [] self.cls = "CmorEerieMember" ->
            Returns(replace(self, "cmor_table",
                            str_replace(self.attrs.cmor_table, "O", "A")))
      [] OTHER -> NotImplemented

to_daily(self) ==
    CASE self.cls = "EERIEMember" -> Returns(replace(self, "freq", S_daily))
      [] self.cls = "CmorEerieMember" ->
            Returns(replace(self, "cmor_table",
                            IF self.attrs.cmor_table = S_Omon THEN S_Oday ELSE S_day))
      [] OTHER -> NotImplemented

Transforms == {"to_ocean", "to_atmos", "to_daily"}

apply(op, self) ==
    CASE op = "to_ocean" -> to_ocean(self)
      [] op = "to_atmos" -> to_atmos(self)
      [] op = "to_daily" -> to_daily(self)

NoCall == [op |-> "none", self |-> 0, kind |-> "none", val |-> 0]

\* A transform that assigns the field on self instead of copying.
store_in_place(h, self, out) ==
    IF out.kind # "return" THEN h
    ELSE IF self = 0 THEN Append(h, out.val)
    ELSE Append([h EXCEPT ![self] = out.val], out.val)

\* A method that returns a member object stores it in the heap; the caller
\* gets its identity.  In-place mutation of the receiver would show as a
\* change of heap[self].
store(h, self, out) ==
    IF out.kind = "return" THEN Append(h, out.val) ELSE h

\* The call that returned the new object, kept next to it.
record(m, op, self, out) ==
    IF out.kind = "return" THEN Append(m, [op |-> op, self |-> self]) ELSE m

InitMemberVars ==
    /\ \E n \in 1..MaxPieces :
          \E names \in {SubSeq(<<lead, S_m, S_m>>, 1, Min(n, 3)) : lead \in NameTokens},
             segments \in [1..(Min(n, 6) - Min(n, 3)) -> SegmentTokens],
             extra \in [1..(n - Min(n, 6)) -> NameTokens] :
             member_str = join(names \o segments \o extra)
    /\ cls \in Classes
    /\ heap = <<>>
    /\ made = <<>>
    /\ ret = NoCall

IdleMember ==
    /\ member_str = <<>>
    /\ cls = "Member"
    /\ heap = <<>>
    /\ made = <<>>
    /\ ret = NoCall

\* member_class.from_string(member_str), the first call of every run.
CallFromString ==
    /\ ret.op = "none"
    /\ LET out == from_string(cls, member_str)
       IN /\ heap' = store(heap, 0, out)
          /\ made' = record(made, "from_string", 0, out)
          /\ ret' = [op |-> "from_string", self |-> 0, kind |-> out.kind,
                     val |-> IF out.kind = "return" THEN Len(heap') ELSE out.val]
    /\ UNCHANGED <<member_str, cls>>
    /\ UNCHANGED notMember

\* self.to_ocean(), self.to_atmos() or self.to_daily() on an existing object.
CallTransform(op, self) ==
    /\ self \in DOMAIN heap
    /\ Len(heap) < MaxObjects
    /\ LET out == apply(op, heap[self])
       IN /\ heap' = store(heap, self, out)
          /\ made' = record(made, op, self, out)
          /\ ret' = [op |-> op, self |-> self, kind |-> out.kind,
                     val |-> IF out.kind = "return" THEN Len(heap') ELSE out.val]
    /\ UNCHANGED <<member_str, cls>>
    /\ UNCHANGED notMember

\* self.to_string() on an existing object.
CallToString(self) ==
    /\ self \in DOMAIN heap
    /\ ret' = [op |-> "to_string", self |-> self, kind |-> "return",
               val |-> to_string(heap[self])]
    /\ UNCHANGED <<member_str, cls, heap, made>>
    /\ UNCHANGED notMember


----------------------------------------------------------------------------
(***************************************************************************)
(* Trend estimator: eerieview/trends/regression.py.                        *)
(*                                                                         *)
(* Floats are records [t, n, d]: a rational n/d in lowest terms ("num"),   *)
(* NaN ("nan"), +inf ("inf"), or a finite value that is an irrational      *)
(* function of the inputs and is kept symbolic ("expr").  The arithmetic   *)
(* is exact: rounding is not modelled.  A correlation coefficient is the   *)
(* record [t, c, va, vb] standing for c / sqrt(va * vb).                   *)
(***************************************************************************)
Abs(i) == IF i < 0 THEN -i ELSE i

RECURSIVE GCD(_, _)
GCD(a, b) == IF b = 0 THEN a ELSE GCD(b, a % b)

Rat(n, d) ==
    LET g == GCD(Abs(n), Abs(d))
        sgn == IF d < 0 THEN -1 ELSE 1
    IN [t |-> "num", n |-> sgn * (n \div g), d |-> sgn * (d \div g)]

Num(i) == [t |-> "num", n |-> i, d |-> 1]
NaN == [t |-> "nan", n |-> 0, d |-> 0]
Inf == [t |-> "inf", n |-> 1, d |-> 0]
Expr == [t |-> "expr", n |-> 0, d |-> 0]
IsNaN(f) == f.t = "nan"

\* f - g and f * g for floats, NaN propagating.
FSub(f, g) == IF IsNaN(f) \/ IsNaN(g) THEN NaN ELSE Rat(f.n * g.d - g.n * f.d, f.d * g.d)
FMul(f, g) == IF IsNaN(f) \/ IsNaN(g) THEN NaN ELSE Rat(f.n * g.n, f.d * g.d)

RECURSIVE SumSeq(_)
SumSeq(s) == IF s = <<>> THEN 0 ELSE Head(s) + SumSeq(Tail(s))

\* numpy.nansum of integer-valued floats: NaN counts as 0.
nansum(fs) == SumSeq([i \in 1..Len(fs) |-> IF IsNaN(fs[i]) THEN 0 ELSE fs[i].n])

\* numpy.nonzero(y)[0]: the indices of the entries that are not 0.  NaN is
\* not 0, so the indices of the NaN entries are among them.
nonzero(ys) ==
    SelectSeq([i \in 1..Len(ys) |-> i], LAMBDA i : IsNaN(ys[i]) \/ ys[i].n # 0)

\* a * b < c * d for naturals, without forming the products.
RECURSIVE FracLess(_, _, _, _)
FracLess(a, b, c, d) ==  \* a / b < c / d, for b > 0 and d > 0
    IF a \div b # c \div d THEN a \div b < c \div d
    ELSE IF c % d = 0 THEN FALSE
    ELSE IF a % b = 0 THEN TRUE
    ELSE FracLess(d, c % d, b, a % b)

ProdLess(a, b, c, d) ==
    IF c = 0 \/ d = 0 THEN FALSE
    ELSE IF a = 0 \/ b = 0 THEN TRUE
    ELSE FracLess(a, d, c, b)

RECURSIVE GCDSeq(_)
GCDSeq(s) == IF s = <<>> THEN 0 ELSE GCD(Abs(Head(s)), GCDSeq(Tail(s)))

RECURSIVE LCMDen(_)
LCMDen(fs) ==
    IF fs = <<>> THEN 1
    ELSE LET l == LCMDen(Tail(fs)) IN (Head(fs).d \div GCD(Head(fs).d, l)) * l

\* The rationals fs as integers in the same proportion, with no common factor.
Proportional(fs) ==
    LET l == LCMDen(fs)
        ints == [i \in 1..Len(fs) |-> fs[i].n * (l \div fs[i].d)]
        g == GCDSeq(ints)
    IN IF g = 0 THEN ints ELSE [i \in 1..Len(ints) |-> ints[i] \div g]

RhoNaN == [t |-> "nan", c |-> 0, va |-> 0, vb |-> 0]
RhoZero == [t |-> "corr", c |-> 0, va |-> 1, vb |-> 1]

\* numpy.corrcoef(u, v)[0, 1]: the covariance over the product of the
\* standard deviations; 0/0 = NaN when either series is constant.
corrcoef(u, v) ==
    LET m == Len(u)
        w == Proportional(u \o v)
        p == [i \in 1..m |-> w[i]]
        q == [i \in 1..m |-> w[m + i]]
        c == m * SumSeq([i \in 1..m |-> p[i] * q[i]]) - SumSeq(p) * SumSeq(q)
        va == m * SumSeq([i \in 1..m |-> p[i] * p[i]]) - SumSeq(p) * SumSeq(p)
        vb == m * SumSeq([i \in 1..m |-> q[i] * q[i]]) - SumSeq(q) * SumSeq(q)
    IN IF va = 0 \/ vb = 0 THEN RhoNaN
       ELSE [t |-> "corr", c |-> c, va |-> va, vb |-> vb]

\* mklr(x, y): OLS of y on x from the sums of x, x^2, y and x*y.  The scalar
\* divisions are compiled by numba.njit with its default error model, under
\* which a division by zero raises ZeroDivisionError.
mklr(xa, ya) ==
    IF Len(xa) # Len(ya)
    THEN [kind |-> "raise", val |-> "NotImplementedError"]
    ELSE
    LET n == Len(xa)
        s0 == n
        s1 == SumSeq(xa)
        s2 == SumSeq([i \in 1..n |-> xa[i] * xa[i]])
        v0 == nansum(ya)
        v1 == nansum([i \in 1..n |-> FMul(Num(xa[i]), ya[i])])
        det == s2 * s0 - s1 * s1
    IN IF det = 0 \/ n - 2 = 0
       THEN [kind |-> "raise", val |-> "ZeroDivisionError"]
       ELSE LET r0 == Rat(s2 * v0 - s1 * v1, det)
                r1 == Rat(s0 * v1 - s1 * v0, det)
                e == [i \in 1..n |-> FSub(ya[i], FSub(r0, FMul(Num(-1), FMul(r1, Num(xa[i])))))]
                Smin0 == \A i \in 1..n : IsNaN(e[i]) \/ e[i].n = 0
                sigma == IF Smin0 THEN Num(0) ELSE Expr
            IN [kind |-> "return", r0 |-> r0, sig0 |-> sigma, r1 |-> r1, sig1 |-> sigma]

\* DOFr = Na * (1 - rhop) / (1 + rhop), kept as the pair it is computed from;
\* the default DOFr = 0 is the pair (0, 0).
DOF(Na, rhop) == [na |-> Na, rhop |-> rhop]

\* DOFr < k and DOFr > k for a natural k and 0 <= rhop < 1:
\*   DOFr < k  iff  (na - k) * sqrt(va * vb) < c * (na + k).
DOFLess(dof, k) ==
    LET l == dof.na - k
        m == dof.rhop.c * (dof.na + k)
    IN IF l < 0 THEN TRUE
       ELSE ProdLess(l * l * dof.rhop.va, dof.rhop.vb, m, m)

DOFGreater(dof, k) ==
    LET l == dof.na - k
        m == dof.rhop.c * (dof.na + k)
    IN IF l <= 0 THEN FALSE
       ELSE ProdLess(m, m, l * l * dof.rhop.va, dof.rhop.vb)

\* Step 7 without its guard: sig, pval and cinthw always computed.
step7_unguarded(dof, sb) == [sig |-> Expr, pval |-> Expr, cinthw |-> Expr]

\* Step 7: sig, pval and cinthw are computed only if DOFr > 2; they are
\* irrational (square root, Student t) and kept symbolic.
step7(dof, sb) ==
    IF DOFGreater(dof, 2)
    THEN [sig |-> Expr, pval |-> Expr, cinthw |-> Expr]
    ELSE [sig |-> Inf, pval |-> Num(1), cinthw |-> Inf]

\* x[i]; a read past the end of x is not bounds-checked in the compiled code
\* and yields whatever the memory holds, here g.
x_read(xs, i, g) == IF i \in DOMAIN xs THEN xs[i] ELSE g

\* Step 0 of ltr_OLSdofrNaN: the values the locals start with.  ia, xa, ya,
\* sb and e are set by the later steps.
Frame0 ==
    [irrc |-> 0, b |-> NaN, sig |-> Inf, pval |-> Num(1), cinthw |-> Inf,
     DOFr |-> DOF(0, RhoZero), rho |-> RhoNaN, Nc |-> NaN, a |-> NaN,
     N |-> 0, ia |-> <<>>, Na |-> 0, xa |-> <<>>, ya |-> <<>>, sb |-> NaN,
     e |-> <<>>, exc |-> "none"]

NoFrame == [exc |-> "none"]

\* y values of the model: NaN, 0 and two other numbers.
YValues == {NaN, Num(0), Num(1), Num(2)}

\* What a read past the end of x may find.
Garbage == {0, 5}

uniform(n) == [i \in 1..n |-> i]
constant(n) == [i \in 1..n |-> 1]

\* The time grids tried with a series of length m: the uniform grid of the
\* same length, a grid of zero variance, and uniform grids one longer and
\* one shorter than the series.
Grids(m) ==
    {uniform(m), constant(m), uniform(m + 1)} \cup (IF m > 0 THEN {uniform(m - 1)} ELSE {})

\* Some index of ia lies past the end of x.
OutOfBounds(xs, ys) ==
    /\ Len(nonzero(ys)) >= 3
    /\ \E k \in 1..Len(nonzero(ys)) : nonzero(ys)[k] > Len(xs)

InitTrendVars ==
    /\ \E m \in 0..MaxN : y \in [1..m -> YValues] /\ x \in Grids(m)
    /\ pc = "step0"
    /\ fr = Frame0

IdleTrend ==
    /\ x = <<>>
    /\ y = <<>>
    /\ pc = "idle"
    /\ fr = NoFrame

\* Lines 158-172: N, ia, Na; with Na < 3 the defaults are returned with
\* irrc = 1000, otherwise ya = y[ia] and xa = x[ia].
Step0 ==
    /\ pc = "step0"
    /\ LET ia == nonzero(y)
           Na == Len(ia)
       IN IF Na < 3
          THEN /\ fr' = [fr EXCEPT !.N = Len(x), !.ia = ia, !.Na = Na,
                                   !.irrc = fr.irrc + 1000]
               /\ pc' = "return"
          ELSE /\ \E g \in (IF OutOfBounds(x, y) THEN Garbage ELSE {0}) :
                    fr' = [fr EXCEPT !.N = Len(x), !.ia = ia, !.Na = Na,
                                     !.ya = [k \in 1..Na |-> y[ia[k]]],
                                     !.xa = [k \in 1..Na |-> x_read(x, ia[k], g)]]
               /\ pc' = "step1"
    /\ UNCHANGED <<x, y>>
    /\ UNCHANGED notTrend

\* Step 1, line 177: a, sa, b, sb = mklr(xa, ya); an exception of mklr
\* propagates to the caller.
Step1 ==
    /\ pc = "step1"
    /\ LET fit == mklr(fr.xa, fr.ya)
       IN IF fit.kind = "raise"
          THEN /\ fr' = [fr EXCEPT !.exc = fit.val]
               /\ pc' = "raise"
          ELSE /\ fr' = [fr EXCEPT !.a = fit.r0, !.b = fit.r1, !.sb = fit.sig1]
               /\ pc' = "step2"
    /\ UNCHANGED <<x, y>>
    /\ UNCHANGED notTrend

\* Step 2, lines 181-185: the residuals ea = ya - a - b * xa, placed at ia in
\* an all-NaN array e of length N.
Step2 ==
    /\ pc = "step2"
    /\ fr' = [fr EXCEPT !.e =
                 [i \in 1..fr.N |->
                     IF \E k \in 1..fr.Na : fr.ia[k] = i
                     THEN LET k == CHOOSE k \in 1..fr.Na : fr.ia[k] = i
                          IN FSub(FSub(fr.ya[k], fr.a), FMul(fr.b, Num(fr.xa[k])))
                     ELSE NaN]]
    /\ pc' = "step3"
    /\ UNCHANGED <<x, y>>
    /\ UNCHANGED notTrend

\* Step 3, lines 190-201: the pairs (e[i], e[i+1]) without NaN, their number
\* Nc, and rho, their correlation, when there are at least 2.
Step3 ==
    /\ pc = "step3"
    /\ LET ic == SelectSeq([i \in 1..(fr.N - 1) |-> i],
                           LAMBDA i : ~IsNaN(fr.e[i]) /\ ~IsNaN(fr.e[i + 1]))
           Nc == Len(ic)
       IN IF Nc < 2
          THEN fr' = [fr EXCEPT !.Nc = Num(Nc), !.irrc = fr.irrc + 100]
          ELSE fr' = [fr EXCEPT !.Nc = Num(Nc),
                                !.rho = corrcoef([k \in 1..Nc |-> fr.e[ic[k]]],
                                                 [k \in 1..Nc |-> fr.e[ic[k] + 1]])]
    /\ pc' = "step4"
    /\ UNCHANGED <<x, y>>
    /\ UNCHANGED notTrend

\* Steps 4 to 7, lines 203-240.
Step4 ==
    /\ pc = "step4"
    /\ IF fr.rho.t = "nan"
       THEN fr' = [fr EXCEPT !.irrc = fr.irrc + 100]
       ELSE LET rhop == IF fr.rho.c > 0 THEN fr.rho ELSE RhoZero
                DOFr == DOF(fr.Na, rhop)
                s7 == step7(DOFr, fr.sb)
            IN fr' = [fr EXCEPT !.irrc = fr.irrc + (IF fr.rho.c < 0 THEN 1 ELSE 0)
                                          + (IF DOFLess(DOFr, 3) THEN 10 ELSE 0),
                                !.DOFr = DOFr, !.sig = s7.sig, !.pval = s7.pval,
                                !.cinthw = s7.cinthw]
    /\ pc' = "return"
    /\ UNCHANGED <<x, y>>
    /\ UNCHANGED notTrend

\* A read of x[ia] past the end of x (step 0) or a store e[ia] = ea past the
\* end of e (step 2) may also end the process.
CrashLtr ==
    /\ pc \in {"step0", "step2"}
    /\ OutOfBounds(x, y)
    /\ pc' = "crash"
    /\ UNCHANGED <<x, y, fr>>
    /\ UNCHANGED notTrend

----------------------------------------------------------------------------
(***************************************************************************)
(* compute_trend: eerieview/trends/api.py.                                 *)
(*                                                                         *)
(* A dict of attributes is a function from its keys to strings.  The       *)
(* DataArray built by dataset[varname] shares the attrs dict of the        *)
(* dataset's variable, and compute_trend hands the same dict to the trend  *)
(* it returns: there is one dict object, the variable attrs.               *)
(***************************************************************************)
S_units == "units"
S_degC == <<"d", "e", "g", "C">>
S_decade == <<"d", "e", "c", "a", "d", "e", " ", "-", "1">>
S_year == <<"y", "e", "a", "r", " ", "-", "1">>

Cells == 1..NCells

\* dict.get(key, default) and dict[key] = value.
dict_get(d, key, default) == IF key \in DOMAIN d THEN d[key] ELSE default
dict_set(d, key, value) ==
    [k \in DOMAIN d \cup {key} |-> IF k = key THEN value ELSE d[k]]

\* The cast to float32 of otypes: exact for NaN, inf and the integers below
\* 2^24, a rounded value otherwise.
float32(f) ==
    IF f.t \in {"nan", "inf"} THEN f
    ELSE IF f.t = "num" /\ f.d = 1 /\ Abs(f.n) < 16777216 THEN f
    ELSE Expr

\* trend * 10 on a float: NaN stays NaN.
times10(f) == IF f.t = "num" THEN FMul(f, Num(10)) ELSE f

\* The masked assignment without the mask of the defined p-values.
fill_every_nan(trend, p_value) ==
    [c \in DOMAIN trend |-> IF IsNaN(trend[c]) THEN Num(0) ELSE trend[c]]

\* Lines 54-57: trend.values[isnan(trend.values) & ~isnan(p_value.values)] = 0.
fill_masked(trend, p_value) ==
    [c \in DOMAIN trend |->
        IF IsNaN(trend[c]) /\ ~IsNaN(p_value[c]) THEN Num(0) ELSE trend[c]]

\* The slopes and p-values _compute_trend may return for a cell.
Slopes == {NaN, Num(0), Num(1), Num(-3)}
PValues == {NaN, Num(1), Expr}

InitApiVars ==
    /\ attrs \in {<<>>, [k \in {S_units} |-> S_degC]}
    /\ attrs0 = attrs
    /\ cell_fit \in [Cells -> [b : Slopes, pval : PValues]]
    /\ results = <<>>

IdleApi ==
    /\ attrs = <<>>
    /\ attrs0 = <<>>
    /\ cell_fit = <<>>
    /\ results = <<>>

\* compute_trend(varname, dataset, as_decadal).
ComputeTrend(as_decadal) ==
    /\ cell_fit # <<>>
    /\ Len(results) < MaxCalls
    /\ LET trend0 == [c \in Cells |-> float32(cell_fit[c].b)]
           p_value == [c \in Cells |-> float32(cell_fit[c].pval)]
           trend1 == fill_masked(trend0, p_value)
           trend == IF as_decadal THEN [c \in Cells |-> times10(trend1[c])] ELSE trend1
           suffix == IF as_decadal THEN S_decade ELSE S_year
       IN /\ attrs' = dict_set(attrs, S_units, dict_get(attrs, S_units, <<>>) \o suffix)
          /\ results' = Append(results, [as_decadal |-> as_decadal, trend |-> trend,
                                 p_value |-> p_value])
    /\ UNCHANGED <<attrs0, cell_fit>>
    /\ UNCHANGED notApi

----------------------------------------------------------------------------
(***************************************************************************)
(* Time filters and time aggregation: TimeFilter of data_models.py,        *)
(* get_time_filters, filter_time_axis, _get_yearseas and aggtime of        *)
(* data_processing.py, get_time_series of product_computation.py.          *)
(*                                                                         *)
(* A timestamp is a record [year, month, day, hour].                       *)
(***************************************************************************)
datetime(year, month, day) == [year |-> year, month |-> month, day |-> day, hour |-> 0]

\* t1 < t2 for timestamps.
DateLess(t1, t2) ==
    \/ t1.year < t2.year
    \/ t1.year = t2.year /\ t1.month < t2.month
    \/ t1.year = t2.year /\ t1.month = t2.month /\ t1.day < t2.day
    \/ t1.year = t2.year /\ t1.month = t2.month /\ t1.day = t2.day /\ t1.hour < t2.hour

\* The members of a set of timestamps in increasing order.
RECURSIVE SortDates(_)
SortDates(S) ==
    IF S = {} THEN <<>>
    ELSE LET first == CHOOSE t \in S : \A u \in S : ~DateLess(u, t)
         IN <<first>> \o SortDates(S \ {first})

\* The "time.season" accessor: the season a month belongs to.
season(month) ==
    IF month \in {12, 1, 2} THEN "DJF"
    ELSE IF month \in {3, 4, 5} THEN "MAM"
    ELSE IF month \in {6, 7, 8} THEN "JJA"
    ELSE "SON"

TimeFilter(freq, units) == [freq |-> freq, units |-> units]

\* get_time_filters().
get_time_filters ==
    <<TimeFilter("year", "year")>>
        \o [i \in 1..4 |-> TimeFilter(<<"MAM", "JJA", "SON", "DJF">>[i], "season")]

\* TimeFilter.get_minvalues with the lookup of a known unit only.
get_minvalues_defaulting(self, original_freq) ==
    IF original_freq = "daily"
    THEN [kind |-> "return",
          val |-> IF self.units = "month" THEN 28
                  ELSE IF self.units = "season" THEN 80 ELSE 354]
    ELSE [kind |-> "return",
          val |-> IF self.units = "month" THEN 1
                  ELSE IF self.units = "season" THEN 3 ELSE 12]

\* TimeFilter.get_minvalues(original_freq).
get_minvalues(self, original_freq) ==
    LET units2minvalues ==
            IF original_freq = "daily"
            THEN [month |-> 28, season |-> 80, year |-> 354]
            ELSE [month |-> 1, season |-> 3, year |-> 12]
    IN IF original_freq \notin {"daily", "monthly"}
       THEN [kind |-> "raise", val |-> "NotImplementedError"]
       ELSE IF self.units \notin DOMAIN units2minvalues
       THEN [kind |-> "raise", val |-> "KeyError"]
       ELSE [kind |-> "return", val |-> units2minvalues[self.units]]

\* _get_yearseas without the step back to the year of the December.
get_yearseas_same_year(year, seas, month) ==
    datetime(year, [DJF |-> 12, MAM |-> 3, JJA |-> 6, SON |-> 9][seas], 1)

\* _get_yearseas(year, seas, month).
get_yearseas(year, seas, month) ==
    LET seas2firstmonth == [DJF |-> 12, MAM |-> 3, JJA |-> 6, SON |-> 9]
        year1 == IF month \in {1, 2} THEN year - 1 ELSE year
    IN datetime(year1, seas2firstmonth[seas], 1)

\* The group of each timestamp in aggtime, lines 265-280.
group_list(axis, freq) ==
    [i \in 1..Len(axis) |->
        IF freq = "year" THEN datetime(axis[i].year, 1, 1)
        ELSE IF freq = "month" THEN datetime(axis[i].year, axis[i].month, 1)
        ELSE get_yearseas(axis[i].year, season(axis[i].month), axis[i].month)]

\* filter_time_axis(dataset, time_filter): the time axis that is left.
filter_time_axis(axis, tf) ==
    IF tf.units = "season"
    THEN [kind |-> "return", val |-> SelectSeq(axis, LAMBDA t : season(t.month) = tf.freq)]
    ELSE IF tf.units = "month"
    THEN [kind |-> "return", val |-> SelectSeq(axis, LAMBDA t : t.month = tf.freq)]
    ELSE IF tf.units = "year"
    THEN [kind |-> "return", val |-> axis]
    ELSE [kind |-> "raise", val |-> "RuntimeError"]

\* The range of a sequence.
Range(q) == {q[i] : i \in DOMAIN q}

\* A monthly time axis of n timestamps starting at month m0 of year y0.
MonthAxis(y0, m0, n) ==
    [i \in 1..n |-> datetime(y0 + ((m0 + i - 2) \div 12), ((m0 + i - 2) % 12) + 1, 1)]

FirstYear == 2000

NoSeries == [exc |-> "none"]
NoTimeCall == [op |-> "none"]

\* The units and cadences get_minvalues is called with.
UnitNames == {"month", "season", "year", "day"}
CadenceNames == {"daily", "monthly", "hourly"}

InitTimeVars ==
    /\ \E m0 \in 1..12, n \in 1..MaxMonths : times = MonthAxis(FirstYear, m0, n)
    /\ time_filter \in Range(get_time_filters)
    /\ tpc = "filter"
    /\ ts = NoSeries
    /\ tcall = NoTimeCall

IdleTime ==
    /\ times = <<>>
    /\ time_filter = TimeFilter("year", "year")
    /\ tpc = "idle"
    /\ ts = NoSeries
    /\ tcall = NoTimeCall

\* time_filters = get_time_filters(), product_computation.py line 348.
CallGetTimeFilters ==
    /\ tpc = "filter"
    /\ tcall' = [op |-> "get_time_filters",
                 out |-> [kind |-> "return", val |-> get_time_filters]]
    /\ UNCHANGED <<times, time_filter, tpc, ts>>
    /\ UNCHANGED notTime

\* TimeFilter(freq, units).get_minvalues(original_freq).
CallGetMinvalues(units, original_freq) ==
    /\ tpc = "filter"
    /\ tcall' = [op |-> "get_minvalues", units |-> units,
                 original_freq |-> original_freq,
                 out |-> get_minvalues(TimeFilter(units, units), original_freq)]
    /\ UNCHANGED <<times, time_filter, tpc, ts>>
    /\ UNCHANGED notTime

\* dataset_cmor_filtered = filter_time_axis(dataset_cmor, time_filter).
FilterTimeAxis ==
    /\ tpc = "filter"
    /\ LET r == filter_time_axis(times, time_filter)
       IN IF r.kind = "raise"
          THEN ts' = [exc |-> r.val] /\ tpc' = "raise"
          ELSE ts' = [exc |-> "none", filtered |-> r.val] /\ tpc' = "series"
    /\ UNCHANGED <<times, time_filter, tcall>>
    /\ UNCHANGED notTime

\* get_time_series: aggtime groups the filtered axis, the groups with fewer
\* than minvalues values are masked, and every group is given the time label
\* 1 January of its year.  Grouping an axis without timestamps fails.
GetTimeSeries ==
    /\ tpc = "series"
    /\ LET minvalues == get_minvalues(time_filter, "monthly")
           freq == time_filter.units
           groups == group_list(ts.filtered, freq)
           keys == SortDates(Range(groups))
           count == [k \in 1..Len(keys) |->
                        Cardinality({i \in 1..Len(groups) : groups[i] = keys[k]})]
       IN IF minvalues.kind = "raise"
          THEN ts' = [ts EXCEPT !.exc = minvalues.val] /\ tpc' = "raise"
          ELSE IF freq \notin {"year", "month", "season"}
          THEN ts' = [ts EXCEPT !.exc = "RuntimeError"] /\ tpc' = "raise"
          ELSE IF ts.filtered = <<>>
          THEN ts' = [ts EXCEPT !.exc = "ValueError"] /\ tpc' = "raise"
          ELSE /\ ts' = [exc |-> "none", filtered |-> ts.filtered,
                         group_list |-> groups, aggtime |-> keys,
                         defined |-> [k \in 1..Len(keys) |-> count[k] >= minvalues.val],
                         time |-> [k \in 1..Len(keys) |-> datetime(keys[k].year, 1, 1)]]
               /\ tpc' = "done"
    /\ UNCHANGED <<times, time_filter, tcall>>
    /\ UNCHANGED notTime

----------------------------------------------------------------------------
(***************************************************************************)
(* slice_period of data_processing.py.                                     *)
(*                                                                         *)
(* dataset.sel(time=slice(a, b)) with two strings selects the timestamps   *)
(* from the start of the time span a names to the end of the time span b   *)
(* names; the span is as long as the last field written in the string: a   *)
(* day for "2005-12-31", a second for "2005-12-31T00:00:00".               *)
(***************************************************************************)
datetime_at(year, month, day, hour) ==
    [year |-> year, month |-> month, day |-> day, hour |-> hour]

\* datetime.isoformat(): "YYYY-MM-DDTHH:MM:SS", the fields down to the second.
isoformat(d) == [date |-> d, reso |-> "second"]

\* str(date): "YYYY-MM-DD", the fields down to the day.
isodate(d) == [date |-> d, reso |-> "day"]

\* The first and the last timestamp of the span a date string names.
string_to_bounds(str) ==
    IF str.reso = "day"
    THEN [lower |-> [str.date EXCEPT !.hour = 0], upper |-> [str.date EXCEPT !.hour = 23]]
    ELSE [lower |-> str.date, upper |-> str.date]

\* dataset.sel(time=slice(start, stop)) on a sorted time axis.
sel_time_slice(axis, start, stop) ==
    SelectSeq(axis, LAMBDA t : /\ ~DateLess(t, string_to_bounds(start).lower)
                               /\ ~DateLess(string_to_bounds(stop).upper, t))

\* slice_period(dataset, period).
slice_period(axis, p) ==
    LET idate == datetime(p[1], 1, 1)
        fdate == datetime(p[2], 12, 31)
        ds_period == sel_time_slice(axis, isoformat(idate), isoformat(fdate))
    IN IF Len(ds_period) = 0
       THEN [kind |-> "raise", val |-> "EmptySliceError"]
       ELSE [kind |-> "return", val |-> ds_period]

\* The timestamps the time axes are made of: around the turn of the years,
\* at midnight and at noon.
TimePool ==
    {datetime_at(FirstYear - 1, 12, 31, 12), datetime_at(FirstYear, 1, 1, 0),
     datetime_at(FirstYear, 1, 1, 12), datetime_at(FirstYear, 7, 1, 0),
     datetime_at(FirstYear, 12, 31, 0), datetime_at(FirstYear, 12, 31, 12),
     datetime_at(FirstYear + 1, 1, 1, 0), datetime_at(FirstYear + 1, 12, 31, 12)}

Years == (FirstYear - 1)..(FirstYear + 1)

NoSlice == [kind |-> "none"]

InitSliceVars ==
    /\ \E S \in SUBSET TimePool : Cardinality(S) <= MaxPoints /\ sl_time = SortDates(S)
    /\ period \in Years \X Years
    /\ sl_ret = NoSlice

IdleSlice ==
    /\ sl_time = <<>>
    /\ period = <<FirstYear, FirstYear>>
    /\ sl_ret = NoSlice

\* A call of slice_period(dataset, period).
CallSlicePeriod ==
    /\ sl_ret = NoSlice
    /\ sl_ret' = slice_period(sl_time, period)
    /\ UNCHANGED <<sl_time, period>>
    /\ UNCHANGED notSlice

----------------------------------------------------------------------------
(***************************************************************************)
(* get_member_dataset of product_computation.py and                        *)
(* retry_get_entry_with_fixes of data_processing.py.                       *)
(*                                                                         *)
(* The member handed in is a Member object, as built by from_string, or a  *)
(* plain string; the fetch function looks up the key of the member and the *)
(* raw variable name in the catalogue and raises KeyError when there is no *)
(* such entry.                                                             *)
(***************************************************************************)
S_monthly == <<"m", "o", "n", "t", "h", "l", "y">>
S_avg == <<"a", "v", "g">>
S_max == <<"m", "a", "x">>
S_min == <<"m", "i", "n">>
S_fesom == <<"f", "e", "s", "o", "m">>
S_24 == <<"2", "4">>
S_mx2t == <<"m", "x", "2", "t">>
S_fesom_member == <<"f", "e", "s", "o", "m", ".", "h", ".", "v", ".", "g", ".", "a", "t", "m", "o", "s", ".", "m", "o", "n", "t", "h", "l", "y", "_", "a", "v", "g">>
S_fesom_daily_avg == <<"f", "e", "s", "o", "m", ".", "h", ".", "v", ".", "g", ".", "a", "t", "m", "o", "s", ".", "d", "a", "i", "l", "y", "_", "a", "v", "g">>
S_fesom_daily_max == <<"f", "e", "s", "o", "m", ".", "h", ".", "v", ".", "g", ".", "a", "t", "m", "o", "s", ".", "d", "a", "i", "l", "y", "_", "m", "a", "x">>
S_icon_member == <<"i", "c", "o", "n", ".", "h", ".", "v", ".", "g", ".", "a", "t", "m", "o", "s", ".", "d", "a", "i", "l", "y", "_", "a", "v", "g">>
S_cmor_member == <<"i", "c", "o", "n", ".", "h", ".", "v", ".", "g", ".", "A", "m", "o", "n">>

\* sub in s.
contains(s, sub) ==
    \E i \in 1..(Len(s) - Len(sub) + 1) : SubSeq(s, i, i + Len(sub) - 1) = sub

\* s.replace(old, new) for a non-empty string old: every occurrence, from
\* the left.
RECURSIVE replace_all(_, _, _)
replace_all(s, old, new) ==
    IF Len(s) < Len(old) THEN s
    ELSE IF SubSeq(s, 1, Len(old)) = old
    THEN new \o replace_all(SubSeq(s, Len(old) + 1, Len(s)), old, new)
    ELSE <<s[1]>> \o replace_all(Tail(s), old, new)

\* A member argument: a Member object or a str.
MemberObject(s) == [type |-> "Member", obj |-> from_string("EERIEMember", s).val]
MemberString(s) == [type |-> "str", str |-> s]

\* The catalogue key the fetch function derives from the member.
member_key(member) ==
    IF member.type = "Member" THEN to_string(member.obj) ELSE member.str

\* get_entry_dataset_fun(catalogue, member, rawname, location=location).
get_entry_dataset_fun(cat, member, rawname) ==
    IF <<member_key(member), rawname>> \in cat
    THEN [kind |-> "return", val |-> <<member_key(member), rawname>>]
    ELSE [kind |-> "raise", val |-> "KeyError"]

\* retry_get_entry_with_fixes: the fixes are string operations on the
\* member; a Member object has no replace method and is not iterable.
retry_get_entry_with_fixes(cat, member, rawname, varname) ==
    IF member.type # "str"
    THEN [kind |-> "raise", val |-> "AttributeError", calls |-> <<>>]
    ELSE
    LET member1 == replace_all(member.str, S_monthly, <<"d", "a", "i", "l", "y">>)
        fix_max == varname = "tasmax" /\ contains(member1, S_fesom)
        member2 == IF fix_max THEN replace_all(member1, S_avg, S_max) ELSE member1
        rawname2 == IF fix_max /\ ~contains(rawname, S_24) THEN rawname \o S_24 ELSE rawname
        fix_min == varname = "tasmin" /\ contains(member2, S_fesom)
        member3 == IF fix_min THEN replace_all(member2, S_avg, S_min) ELSE member2
        rawname3 == IF fix_min /\ ~contains(rawname2, S_24) THEN rawname2 \o S_24 ELSE rawname2
        r == get_entry_dataset_fun(cat, MemberString(member3), rawname3)
    IN [kind |-> r.kind, val |-> r.val, calls |-> <<<<member3, rawname3>>>>]

\* get_member_dataset: the outcome and the fetches made, in order.
get_member_dataset(cat, member, rawname, varname) ==
    LET first == get_entry_dataset_fun(cat, member, rawname)
        call1 == <<member_key(member), rawname>>
    IN IF first.kind = "return"
       THEN [kind |-> "return", val |-> first.val, calls |-> <<call1>>]
       ELSE LET again == retry_get_entry_with_fixes(cat, member, rawname, varname)
            IN [kind |-> again.kind, val |-> again.val, calls |-> <<call1>> \o again.calls]

\* The entries a catalogue may hold.
Entries ==
    {<<S_fesom_member, S_mx2t>>, <<S_fesom_daily_avg, S_mx2t>>,
     <<S_fesom_daily_max, S_mx2t \o S_24>>, <<S_icon_member, S_mx2t>>}

NoFetch == [kind |-> "none"]

InitFetchVars ==
    /\ catalogue \in SUBSET Entries
    /\ \E s \in {S_fesom_member, S_icon_member}, rawname \in {S_mx2t, S_mx2t \o S_24},
          varname \in {"tas", "tasmax", "tasmin"} :
          request \in {[member |-> m, rawname |-> rawname, varname |-> varname] :
                          m \in {MemberObject(s), MemberString(s)}}
    /\ fetched = NoFetch

IdleFetch ==
    /\ catalogue = {}
    /\ request = [member |-> MemberString(<<>>), rawname |-> <<>>, varname |-> "tas"]
    /\ fetched = NoFetch

\* A call of get_member_dataset(catalogue, get_entry_dataset_fun, location,
\* member, rawname, varname).
CallGetMemberDataset ==
    /\ fetched = NoFetch
    /\ request.rawname # <<>>
    /\ fetched' = get_member_dataset(catalogue, request.member, request.rawname,
                                     request.varname)
    /\ UNCHANGED <<catalogue, request>>
    /\ UNCHANGED notFetch

----------------------------------------------------------------------------
(***************************************************************************)
(* get_model_decadal_product and get_model_time_series of                  *)
(* product_computation.py: the loop over the members, the time filters     *)
(* and the periods.  The dataset of a member is its time axis; a fragment  *)
(* of the product records the member, filter and period it was computed    *)
(* for and whether it holds data or the all-missing placeholder.           *)
(***************************************************************************)

\* get_decadal_product(dataset, period, product, varname).
get_decadal_product(axis, p, product) ==
    IF product \in {"clim", "trend"}
    THEN LET ds_period == slice_period(axis, p)
         IN IF ds_period.kind = "raise" THEN ds_period
            ELSE [kind |-> "return", val |-> "data"]
    ELSE [kind |-> "raise", val |-> "RuntimeError"]

\* get_decadal_product_or_fill_with_nan: on EmptySliceError the placeholder
\* is cut from the first time step of the filtered dataset, isel(time=0),
\* which raises IndexError when the filtered dataset has no time step.
get_decadal_product_or_fill_with_nan(axis, p, product) ==
    LET r == get_decadal_product(axis, p, product)
    IN IF r.kind = "raise" /\ r.val = "EmptySliceError"
       THEN IF Len(axis) = 0
            THEN [kind |-> "raise", val |-> "IndexError"]
            ELSE [kind |-> "return", val |-> "nan"]
       ELSE r

\* The existing output is kept only if clobber is set.
refuses_to_overwrite_inverted(exists, clobber) == exists /\ clobber

\* output_path.exists() and not clobber.
refuses_to_overwrite(exists, clobber) == exists /\ ~clobber

\* PeriodsConfig.all_list: the reference period and the periods.
all_list == <<<<FirstYear, FirstYear>>, <<FirstYear + 1, FirstYear + 1>>>>

\* The datasets of the members: the fifteen months from January of the first
\* year, which have no month of JJA and SON in the second year, or the six
\* months from September, which have no month of MAM and JJA at all.
MemberAxes == {MonthAxis(FirstYear, 1, 15), MonthAxis(FirstYear, 9, 6)}

\* The values of a member's variable at one cell, along a time axis: 1 in
\* the first year, rising by member.rise from a year to the next.
data_values(member, axis) ==
    [i \in 1..Len(axis) |-> 1 + member.rise * (axis[i].year - FirstYear)]

\* DataArray.mean(dim="time").
mean(vals) == Rat(SumSeq(vals), Len(vals))

\* define_extra_dimensions: the period label f"{period[0]}-{period[1]}", the
\* two years in decimal joined by "-".
period_str(p) == <<p[1], p[2]>>

\* reduce(lambda x, y: xarray.merge([x, y]), climatologies): the variable
\* over the member, time_filter and period labels of the fragments, missing
\* where no fragment has the labels.
merge(fragments) ==
    LET I == DOMAIN fragments
        key(f) == <<f.member, f.time_filter, f.label>>
        keys == {fragments[i].member : i \in I} \X {fragments[i].time_filter : i \in I}
                    \X {fragments[i].label : i \in I}
    IN [var |-> [k \in keys |->
                    IF \E i \in I : key(fragments[i]) = k
                    THEN fragments[CHOOSE i \in I : key(fragments[i]) = k].value
                    ELSE NaN],
        anom |-> <<>>]

\* add_anomalies with the last period label in the place of the reference.
add_anomalies_other_period(final_dataset, periods) ==
    LET ref_period_str == period_str(periods[Len(periods)])
    IN IF \E k \in DOMAIN final_dataset.var : k[3] = ref_period_str
       THEN [kind |-> "return",
             val |-> [final_dataset EXCEPT !.anom =
                         [k \in DOMAIN final_dataset.var |->
                             float32(FSub(final_dataset.var[k],
                                          final_dataset.var[<<k[1], k[2], ref_period_str>>]))]]]
       ELSE [kind |-> "raise", val |-> "KeyError"]

\* add_anomalies(final_dataset, periods, varname); periods is all_list, whose
\* head is periods.reference_period.
add_anomalies(final_dataset, periods) ==
    LET ref_period_str == period_str(periods[1])
    IN IF \E k \in DOMAIN final_dataset.var : k[3] = ref_period_str
       THEN [kind |-> "return",
             val |-> [final_dataset EXCEPT !.anom =
                         [k \in DOMAIN final_dataset.var |->
                             float32(FSub(final_dataset.var[k],
                                          final_dataset.var[<<k[1], k[2], ref_period_str>>]))]]]
       ELSE [kind |-> "raise", val |-> "KeyError"]

NoEffects == [catalogue_opens |-> 0, fetches |-> 0, writes |-> 0]
NoRun == [pc |-> "idle"]

InitRunVars ==
    /\ rn_in \in [fun : {"decadal", "series"}, product : {"clim", "trend"},
                  clobber : BOOLEAN,
                  members : [1..NMembers -> [id : {S_icon_member, S_cmor_member},
                                             axis : MemberAxes, found : BOOLEAN,
                                             rise : {0, 2}]]]
    /\ rn = [pc |-> "start", calls |-> 1, prev |-> "none", mi |-> 0, fi |-> 0, pi |-> 0,
             fragments |-> <<>>, final_dataset |-> <<>>, exc |-> "none"]
    /\ fsys \in [exists : BOOLEAN, content : {0}]
    /\ effects = NoEffects

IdleRun ==
    /\ rn_in = <<>>
    /\ rn = NoRun
    /\ fsys = [exists |-> FALSE, content |-> 0]
    /\ effects = NoEffects

\* The first statements of both functions, up to get_main_catalogue(): an
\* existing output is returned as it is unless clobber is set.
Begin ==
    /\ rn.pc = "start"
    /\ IF refuses_to_overwrite(fsys.exists, rn_in.clobber)
       THEN /\ rn' = [rn EXCEPT !.pc = "returned"]
            /\ UNCHANGED effects
       ELSE /\ rn' = [rn EXCEPT !.pc = "member", !.mi = 1, !.fragments = <<>>]
            /\ effects' = [effects EXCEPT !.catalogue_opens = @ + 1]
    /\ UNCHANGED <<rn_in, fsys>>
    /\ UNCHANGED notRun

\* The head of the loop over the members with the output file created
\* before the member is fetched.
FetchMemberAfterCreatingOutput ==
    /\ rn.pc = "member"
    /\ LET parsed == from_string("EERIEMember", rn_in.members[rn.mi].id)
           member == [type |-> "Member", obj |-> parsed.val]
           cat == IF rn_in.members[rn.mi].found
                  THEN {<<rn_in.members[rn.mi].id, S_mx2t>>} ELSE {}
           r == get_member_dataset(cat, member, S_mx2t, "tas")
       IN IF parsed.kind = "raise"
          THEN /\ rn' = [rn EXCEPT !.pc = "aborted", !.exc = parsed.val]
               /\ UNCHANGED effects
          ELSE /\ effects' = [effects EXCEPT !.fetches = @ + Len(r.calls)]
               /\ IF r.kind = "raise"
                  THEN rn' = [rn EXCEPT !.pc = "aborted", !.exc = r.val]
                  ELSE rn' = [rn EXCEPT !.pc = "product", !.fi = 1, !.pi = 1]
    /\ fsys' = [exists |-> TRUE, content |-> rn.calls]
    /\ UNCHANGED rn_in
    /\ UNCHANGED notRun

\* The head of the loop over the members: the member object is built by
\* member_class.from_string and its dataset fetched by get_member_dataset; an
\* exception ends the call.
FetchMember ==
    /\ rn.pc = "member"
    /\ LET parsed == from_string("EERIEMember", rn_in.members[rn.mi].id)
           member == [type |-> "Member", obj |-> parsed.val]
           cat == IF rn_in.members[rn.mi].found
                  THEN {<<rn_in.members[rn.mi].id, S_mx2t>>} ELSE {}
           r == get_member_dataset(cat, member, S_mx2t, "tas")
       IN IF parsed.kind = "raise"
          THEN /\ rn' = [rn EXCEPT !.pc = "aborted", !.exc = parsed.val]
               /\ UNCHANGED effects
          ELSE /\ effects' = [effects EXCEPT !.fetches = @ + Len(r.calls)]
               /\ IF r.kind = "raise"
                  THEN rn' = [rn EXCEPT !.pc = "aborted", !.exc = r.val]
                  ELSE rn' = [rn EXCEPT !.pc = "product", !.fi = 1, !.pi = 1]
    /\ UNCHANGED <<rn_in, fsys>>
    /\ UNCHANGED notRun

\* The position after the fragment of (mi, fi, pi) has been appended, with a
\* loop over the periods that leaves the last period out.
advance_without_last_period(r, nperiods) ==
    IF r.pi < nperiods - 1 THEN [r EXCEPT !.pi = @ + 1]
    ELSE IF r.fi < Len(get_time_filters) THEN [r EXCEPT !.fi = @ + 1, !.pi = 1]
    ELSE IF r.mi < NMembers THEN [r EXCEPT !.pc = "member", !.mi = @ + 1, !.fi = 0, !.pi = 0]
    ELSE [r EXCEPT !.pc = "write"]

\* The position after the fragment of (mi, fi, pi) has been appended.
advance(r, nperiods) ==
    IF r.pi < nperiods THEN [r EXCEPT !.pi = @ + 1]
    ELSE IF r.fi < Len(get_time_filters) THEN [r EXCEPT !.fi = @ + 1, !.pi = 1]
    ELSE IF r.mi < NMembers THEN [r EXCEPT !.pc = "member", !.mi = @ + 1, !.fi = 0, !.pi = 0]
    ELSE [r EXCEPT !.pc = "write"]

\* One pass of the inner loop: the fragment of the current member, time
\* filter and period (get_model_decadal_product) or of the current member
\* and time filter (get_model_time_series) is computed and appended.
Product ==
    /\ rn.pc = "product"
    /\ LET tf == get_time_filters[rn.fi]
           filtered == filter_time_axis(rn_in.members[rn.mi].axis, tf).val
           r == IF rn_in.fun = "decadal"
                THEN get_decadal_product_or_fill_with_nan(filtered, all_list[rn.pi],
                                                          rn_in.product)
                ELSE IF filtered = <<>>
                THEN [kind |-> "raise", val |-> "ValueError"]
                ELSE [kind |-> "return", val |-> "data"]
           nperiods == IF rn_in.fun = "decadal" THEN Len(all_list) ELSE 1
           label == IF rn_in.fun = "decadal" THEN period_str(all_list[rn.pi])
                    ELSE "reference"
           value == IF r.val = "nan" THEN NaN
                    ELSE IF rn_in.fun = "decadal" /\ rn_in.product = "clim"
                    THEN mean(data_values(rn_in.members[rn.mi],
                                          slice_period(filtered, all_list[rn.pi]).val))
                    ELSE Expr
       IN IF r.kind = "raise"
          THEN rn' = [rn EXCEPT !.pc = "aborted", !.exc = r.val]
          ELSE rn' = advance([rn EXCEPT !.fragments =
                                 Append(@, [member |-> rn.mi, time_filter |-> tf,
                                            period |-> rn.pi, fill |-> r.val,
                                            label |-> label, value |-> value])],
                             nperiods)
    /\ UNCHANGED <<rn_in, fsys, effects>>
    /\ UNCHANGED notRun

\* The fragments are merged, the anomalies of a "clim" decadal product are
\* added, and the result is written by safe_to_netcdf: to a file in a
\* temporary directory that is then moved to the output path.
Write ==
    /\ rn.pc = "write"
    /\ LET merged == merge(rn.fragments)
           r == IF rn_in.fun = "decadal" /\ rn_in.product = "clim"
                THEN add_anomalies(merged, all_list)
                ELSE [kind |-> "return", val |-> merged]
       IN IF r.kind = "raise"
          THEN /\ rn' = [rn EXCEPT !.pc = "aborted", !.exc = r.val]
               /\ UNCHANGED <<fsys, effects>>
          ELSE /\ fsys' = [exists |-> TRUE, content |-> rn.calls]
               /\ effects' = [effects EXCEPT !.writes = @ + 1]
               /\ rn' = [rn EXCEPT !.pc = "returned", !.final_dataset = r.val]
    /\ UNCHANGED rn_in
    /\ UNCHANGED notRun

\* The function is called again with the same arguments.
CallAgain ==
    /\ rn.pc = "returned"
    /\ rn.calls < MaxRuns
    /\ rn' = [pc |-> "start", calls |-> rn.calls + 1, prev |-> "returned", mi |-> 0,
              fi |-> 0, pi |-> 0, fragments |-> <<>>, final_dataset |-> <<>>,
              exc |-> "none"]
    /\ UNCHANGED <<rn_in, fsys, effects>>
    /\ UNCHANGED notRun

\* After a call that raised, the function is called with the same arguments
\* and clobber = False.
CallAfterAbort ==
    /\ rn.pc = "aborted"
    /\ rn.calls < MaxRuns
    /\ rn' = [pc |-> "start", calls |-> rn.calls + 1, prev |-> "aborted", mi |-> 0,
              fi |-> 0, pi |-> 0, fragments |-> <<>>, final_dataset |-> <<>>,
              exc |-> "none"]
    /\ rn_in' = [rn_in EXCEPT !.clobber = FALSE]
    /\ UNCHANGED <<fsys, effects>>
    /\ UNCHANGED notRun

(***************************************************************************)
(* eerieview/io_utils.py: safe_to_netcdf and safe_to_zarr.                 *)
(*                                                                         *)
(* A path holds [version, n]: version "none" is an absent path, "old" the  *)
(* output of an earlier run, "new" the output of this call; n counts the   *)
(* pieces present, and the content is complete when n = NChunks.  Writing, *)
(* copying and removing a tree proceed piece by piece, and the process can *)
(* crash between any two steps.                                            *)
(***************************************************************************)
Absent == [version |-> "none", n |-> 0]

Complete(version) == [version |-> version, n |-> NChunks]

\* tempfile.TemporaryDirectory() is created under the system's temporary
\* directory, which is or is not on the device of output_path; the sibling
\* path output_path + ".tmp" of safe_to_zarr is on the same device.
InitOutputVars ==
    /\ wr_in \in [fn : {"safe_to_netcdf", "safe_to_zarr"}, same_device : BOOLEAN,
                  final : {Absent, Complete("old")},
                  temp : {Absent} \cup [version : {"old"}, n : 1..NChunks]]
    /\ wr_in.fn = "safe_to_zarr" => wr_in.same_device
    /\ wr_in.fn = "safe_to_netcdf" => wr_in.temp = Absent
    /\ wr = [pc |-> "start", final |-> wr_in.final, temp |-> wr_in.temp]

IdleOutput ==
    /\ wr_in = <<>>
    /\ wr = [pc |-> "idle"]

\* safe_to_netcdf: a fresh temporary directory; safe_to_zarr: rmtree of a
\* temporary store left by an earlier call.
MakeTemp ==
    /\ wr.pc = "start"
    /\ wr' = [wr EXCEPT !.pc = "write", !.temp = Absent]
    /\ UNCHANGED wr_in
    /\ UNCHANGED notOutput

\* dataset.to_netcdf(temp_output_path) / dataset.to_zarr(temp_output_path).
WriteTemp ==
    /\ wr.pc = "write"
    /\ wr' = [wr EXCEPT !.temp = [version |-> "new", n |-> wr.temp.n + 1],
                        !.pc = IF wr.temp.n + 1 = NChunks THEN "move" ELSE "write"]
    /\ UNCHANGED wr_in
    /\ UNCHANGED notOutput

\* shutil.move(temp_output_path, output_path): os.rename, which replaces the
\* file at output_path in one step; across devices os.rename raises OSError
\* and shutil.move copies: copy2 opens output_path for writing, truncating it.
ShutilMove ==
    /\ wr.pc = "move"
    /\ wr_in.fn = "safe_to_netcdf"
    /\ wr' = IF wr_in.same_device
             THEN [pc |-> "done", final |-> wr.temp, temp |-> Absent]
             ELSE [wr EXCEPT !.pc = "copy", !.final = [version |-> "new", n |-> 0]]
    /\ UNCHANGED wr_in
    /\ UNCHANGED notOutput

\* shutil.move across devices: copy2 writes output_path piece by piece, then
\* os.unlink(src).
Copy ==
    /\ wr.pc = "copy"
    /\ wr' = IF wr.final.n + 1 = NChunks
             THEN [pc |-> "done", final |-> Complete("new"), temp |-> Absent]
             ELSE [wr EXCEPT !.final.n = wr.final.n + 1]
    /\ UNCHANGED wr_in
    /\ UNCHANGED notOutput

\* safe_to_zarr: if output_path.exists(): shutil.rmtree(output_path).
ExistsCheck ==
    /\ wr.pc = "move"
    /\ wr_in.fn = "safe_to_zarr"
    /\ wr' = [wr EXCEPT !.pc = IF wr.final # Absent THEN "rmtree" ELSE "rename"]
    /\ UNCHANGED wr_in
    /\ UNCHANGED notOutput

\* shutil.rmtree(output_path) removes the entries of the store one by one, and
\* the directory itself last.
Rmtree ==
    /\ wr.pc = "rmtree"
    /\ wr' = IF wr.final.n = 0
             THEN [wr EXCEPT !.pc = "rename", !.final = Absent]
             ELSE [wr EXCEPT !.final.n = wr.final.n - 1]
    /\ UNCHANGED wr_in
    /\ UNCHANGED notOutput

\* temp_output_path.rename(output_path).
Rename ==
    /\ wr.pc = "rename"
    /\ wr' = [pc |-> "done", final |-> wr.temp, temp |-> Absent]
    /\ UNCHANGED wr_in
    /\ UNCHANGED notOutput

\* The process is killed between two steps of the call.
Crash ==
    /\ wr.pc \in {"start", "write", "move", "copy", "rmtree", "rename"}
    /\ wr' = [wr EXCEPT !.pc = "crashed"]
    /\ UNCHANGED wr_in
    /\ UNCHANGED notOutput

(***************************************************************************)
(* eerieview/constants.py: the predefined member lists, and the short      *)
(* member names of scripts/upload_to_zarr.py.                              *)
(***************************************************************************)
\* The dot-free fields the member identifiers of constants.py are made of.
Field ==
    [icon_esm_er |->
        <<"i", "c", "o", "n", "-", "e", "s", "m", "-", "e", "r">>,
     eerie_control_1950 |->
        <<"e", "e", "r", "i", "e", "-", "c", "o", "n", "t", "r", "o", "l", "-", "1", "9", "5", "0">>,
     v20240618 |->
        <<"v", "2", "0", "2", "4", "0", "6", "1", "8">>,
     atmos |->
        <<"a", "t", "m", "o", "s">>,
     gr025 |->
        <<"g", "r", "0", "2", "5">>,
     f2d_monthly_mean |->
        <<"2", "d", "_", "m", "o", "n", "t", "h", "l", "y", "_", "m", "e", "a", "n">>,
     ifs_fesom2_sr |->
        <<"i", "f", "s", "-", "f", "e", "s", "o", "m", "2", "-", "s", "r">>,
     v20240304 |->
        <<"v", "2", "0", "2", "4", "0", "3", "0", "4">>,
     f2D_monthly_avg |->
        <<"2", "D", "_", "m", "o", "n", "t", "h", "l", "y", "_", "a", "v", "g">>,
     hadgem3_gc5_n640_orca1 |->
        <<"h", "a", "d", "g", "e", "m", "3", "-", "g", "c", "5", "-", "n", "6", "4", "0", "-", "o", "r", "c", "a", "1">>,
     eerie_picontrol |->
        <<"e", "e", "r", "i", "e", "-", "p", "i", "c", "o", "n", "t", "r", "o", "l">>,
     v20250425 |->
        <<"v", "2", "0", "2", "5", "0", "4", "2", "5">>,
     daily |->
        <<"d", "a", "i", "l", "y">>,
     hadgem3_gc5_n640_orca12 |->
        <<"h", "a", "d", "g", "e", "m", "3", "-", "g", "c", "5", "-", "n", "6", "4", "0", "-", "o", "r", "c", "a", "1", "2">>,
     hadgem3_gc5_n216_orca025 |->
        <<"h", "a", "d", "g", "e", "m", "3", "-", "g", "c", "5", "-", "n", "2", "1", "6", "-", "o", "r", "c", "a", "0", "2", "5">>,
     hist_1950 |->
        <<"h", "i", "s", "t", "-", "1", "9", "5", "0">>,
     ifs_nemo_er |->
        <<"i", "f", "s", "-", "n", "e", "m", "o", "-", "e", "r">>,
     v20250516 |->
        <<"v", "2", "0", "2", "5", "0", "5", "1", "6">>,
     highres_future_ssp245 |->
        <<"h", "i", "g", "h", "r", "e", "s", "-", "f", "u", "t", "u", "r", "e", "-", "s", "s", "p", "2", "4", "5">>,
     Amon |->
        <<"A", "m", "o", "n">>,
     ifs_amip_tco1279 |->
        <<"i", "f", "s", "-", "a", "m", "i", "p", "-", "t", "c", "o", "1", "2", "7", "9">>,
     hist |->
        <<"h", "i", "s", "t">>,
     v20240901 |->
        <<"v", "2", "0", "2", "4", "0", "9", "0", "1">>,
     f2D_monthly |->
        <<"2", "D", "_", "m", "o", "n", "t", "h", "l", "y">>,
     hist_c_0_a_lr20 |->
        <<"h", "i", "s", "t", "-", "c", "-", "0", "-", "a", "-", "l", "r", "2", "0">>,
     ifs_amip_tco399 |->
        <<"i", "f", "s", "-", "a", "m", "i", "p", "-", "t", "c", "o", "3", "9", "9">>,
     hist_c_lr20_a_0 |->
        <<"h", "i", "s", "t", "-", "c", "-", "l", "r", "2", "0", "-", "a", "-", "0">>]

members_eerie_control ==
    <<join(<<Field.icon_esm_er, Field.eerie_control_1950, Field.v20240618, Field.atmos, Field.gr025, Field.f2d_monthly_mean>>),
      join(<<Field.ifs_fesom2_sr, Field.eerie_control_1950, Field.v20240304, Field.atmos, Field.gr025, Field.f2D_monthly_avg>>),
      join(<<Field.hadgem3_gc5_n640_orca1, Field.eerie_picontrol, Field.v20250425, Field.atmos, Field.gr025, Field.daily>>),
      join(<<Field.hadgem3_gc5_n640_orca12, Field.eerie_picontrol, Field.v20250425, Field.atmos, Field.gr025, Field.daily>>),
      join(<<Field.hadgem3_gc5_n216_orca025, Field.eerie_picontrol, Field.v20250425, Field.atmos, Field.gr025, Field.daily>>)>>

members_eerie_hist ==
    <<join(<<Field.ifs_fesom2_sr, Field.hist_1950, Field.v20240304, Field.atmos, Field.gr025, Field.f2D_monthly_avg>>),
      join(<<Field.icon_esm_er, Field.hist_1950, Field.v20240618, Field.atmos, Field.gr025, Field.f2d_monthly_mean>>),
      join(<<Field.ifs_nemo_er, Field.hist_1950, Field.v20250516, Field.atmos, Field.gr025>>),
      join(<<Field.hadgem3_gc5_n640_orca1, Field.hist_1950, Field.v20250425, Field.atmos, Field.gr025, Field.daily>>),
      join(<<Field.hadgem3_gc5_n640_orca12, Field.hist_1950, Field.v20250425, Field.atmos, Field.gr025, Field.daily>>),
      join(<<Field.hadgem3_gc5_n216_orca025, Field.hist_1950, Field.v20250425, Field.atmos, Field.gr025, Field.daily>>)>>

members_eerie_future ==
    <<join(<<Field.ifs_fesom2_sr, Field.highres_future_ssp245, Field.v20240304, Field.atmos, Field.gr025, Field.f2D_monthly_avg>>),
      join(<<Field.icon_esm_er, Field.highres_future_ssp245, Field.v20240618, Field.atmos, Field.gr025, Field.f2d_monthly_mean>>),
      join(<<Field.ifs_nemo_er, Field.highres_future_ssp245, Field.v20250516, Field.atmos, Field.gr025>>),
      join(<<Field.hadgem3_gc5_n640_orca1, Field.highres_future_ssp245, Field.v20250425, Field.atmos, Field.gr025, Field.daily>>),
      join(<<Field.hadgem3_gc5_n640_orca12, Field.highres_future_ssp245, Field.v20250425, Field.atmos, Field.gr025, Field.daily>>),
      join(<<Field.hadgem3_gc5_n216_orca025, Field.highres_future_ssp245, Field.v20250425, Field.atmos, Field.gr025, Field.daily>>)>>

members_eerie_control_cmor ==
    <<join(<<Field.ifs_nemo_er, Field.hist_1950, Field.v20250516, Field.gr025, Field.Amon>>),
      join(<<Field.icon_esm_er, Field.eerie_control_1950, Field.v20240618, Field.gr025, Field.Amon>>),
      join(<<Field.ifs_fesom2_sr, Field.eerie_control_1950, Field.v20240304, Field.gr025, Field.Amon>>),
      join(<<Field.hadgem3_gc5_n640_orca1, Field.eerie_picontrol, Field.v20250425, Field.gr025, Field.Amon>>),
      join(<<Field.hadgem3_gc5_n640_orca12, Field.eerie_picontrol, Field.v20250425, Field.gr025, Field.Amon>>),
      join(<<Field.hadgem3_gc5_n216_orca025, Field.eerie_picontrol, Field.v20250425, Field.gr025, Field.Amon>>)>>

members_eerie_hist_cmor ==
    <<join(<<Field.ifs_fesom2_sr, Field.hist_1950, Field.v20240304, Field.gr025, Field.Amon>>),
      join(<<Field.icon_esm_er, Field.hist_1950, Field.v20240618, Field.gr025, Field.Amon>>),
      join(<<Field.ifs_nemo_er, Field.hist_1950, Field.v20250516, Field.gr025, Field.Amon>>),
      join(<<Field.hadgem3_gc5_n640_orca1, Field.hist_1950, Field.v20250425, Field.gr025, Field.Amon>>),
      join(<<Field.hadgem3_gc5_n640_orca12, Field.hist_1950, Field.v20250425, Field.gr025, Field.Amon>>),
      join(<<Field.hadgem3_gc5_n216_orca025, Field.hist_1950, Field.v20250425, Field.gr025, Field.Amon>>)>>

members_eerie_future_cmor ==
    <<join(<<Field.ifs_fesom2_sr, Field.highres_future_ssp245, Field.v20240304, Field.gr025, Field.Amon>>),
      join(<<Field.icon_esm_er, Field.highres_future_ssp245, Field.v20240618, Field.gr025, Field.Amon>>),
      join(<<Field.ifs_nemo_er, Field.highres_future_ssp245, Field.v20250516, Field.gr025, Field.Amon>>),
      join(<<Field.hadgem3_gc5_n640_orca1, Field.highres_future_ssp245, Field.v20250425, Field.gr025, Field.Amon>>),
      join(<<Field.hadgem3_gc5_n640_orca12, Field.highres_future_ssp245, Field.v20250425, Field.gr025, Field.Amon>>),
      join(<<Field.hadgem3_gc5_n216_orca025, Field.highres_future_ssp245, Field.v20250425, Field.gr025, Field.Amon>>)>>

members_eerie_hist_amip ==
    <<join(<<Field.ifs_amip_tco1279, Field.hist, Field.v20240901, Field.atmos, Field.gr025, Field.f2D_monthly>>),
      join(<<Field.ifs_amip_tco1279, Field.hist_c_0_a_lr20, Field.v20240901, Field.atmos, Field.gr025, Field.f2D_monthly>>),
      join(<<Field.ifs_amip_tco399, Field.hist_c_0_a_lr20, Field.v20240901, Field.atmos, Field.gr025, Field.f2D_monthly>>),
      join(<<Field.ifs_amip_tco399, Field.hist_c_lr20_a_0, Field.v20240901, Field.atmos, Field.gr025, Field.f2D_monthly>>),
      join(<<Field.ifs_amip_tco399, Field.hist, Field.v20240901, Field.atmos, Field.gr025, Field.f2D_monthly>>)>>

\* member2shortmeber: the keys with their short names.
member2shortmeber ==
    <<<<<<"i", "c", "o", "n", "-", "e", "s", "m", "-", "e", "r", "-", "e", "e", "r", "i", "e", "-", "c", "o", "n", "t", "r", "o", "l", "-", "1", "9", "5", "0">>,
          "icon">>,
      <<<<"i", "f", "s", "-", "f", "e", "s", "o", "m", "2", "-", "s", "r", "-", "e", "e", "r", "i", "e", "-", "c", "o", "n", "t", "r", "o", "l", "-", "1", "9", "5", "0">>,
          "ifs-fesom2">>,
      <<<<"i", "f", "s", "-", "f", "e", "s", "o", "m", "2", "-", "s", "r", "-", "h", "i", "s", "t", "-", "1", "9", "5", "0">>,
          "ifs-fesom2">>,
      <<<<"i", "c", "o", "n", "-", "e", "s", "m", "-", "e", "r", "-", "h", "i", "s", "t", "-", "1", "9", "5", "0">>,
          "icon">>,
      <<<<"i", "f", "s", "-", "n", "e", "m", "o", "-", "e", "r", "-", "h", "i", "s", "t", "-", "1", "9", "5", "0">>,
          "ifs-nemo-er">>,
      <<<<"H", "a", "d", "G", "E", "M", "3", "-", "G", "C", "5", "-", "E", "E", "R", "I", "E", "-", "N", "2", "1", "6", "-", "O", "R", "C", "A", "0", "2", "5", "-", "e", "e", "r", "i", "e", "-", "h", "i", "s", "t", "o", "r", "i", "c", "a", "l">>,
          "hadgem3-mediumres">>,
      <<<<"H", "a", "d", "G", "E", "M", "3", "-", "G", "C", "5", "-", "E", "E", "R", "I", "E", "-", "N", "6", "4", "0", "-", "O", "R", "C", "A", "1", "2", "-", "e", "e", "r", "i", "e", "-", "h", "i", "s", "t", "o", "r", "i", "c", "a", "l">>,
          "hadgem3-hires">>,
      <<<<"H", "a", "d", "G", "E", "M", "3", "-", "G", "C", "5", "-", "E", "E", "R", "I", "E", "-", "N", "9", "6", "-", "O", "R", "C", "A", "1", "-", "e", "e", "r", "i", "e", "-", "h", "i", "s", "t", "o", "r", "i", "c", "a", "l">>,
          "hadgem3-lowres">>,
      <<<<"i", "f", "s", "-", "a", "m", "i", "p", "-", "t", "c", "o", "1", "2", "7", "9", "-", "h", "i", "s", "t">>,
          "ifs-amip-tco1279-hist">>,
      <<<<"i", "f", "s", "-", "a", "m", "i", "p", "-", "t", "c", "o", "1", "2", "7", "9", "-", "h", "i", "s", "t", "-", "c", "-", "0", "-", "a", "-", "l", "r", "2", "0">>,
          "ifs-amip-tco1279-hist-c-0-a-lr20">>,
      <<<<"i", "f", "s", "-", "a", "m", "i", "p", "-", "t", "c", "o", "3", "9", "9", "-", "h", "i", "s", "t", "-", "c", "-", "0", "-", "a", "-", "l", "r", "2", "0">>,
          "ifs-amip-tco399-hist-c-0-a-lr20">>,
      <<<<"i", "f", "s", "-", "a", "m", "i", "p", "-", "t", "c", "o", "3", "9", "9", "-", "h", "i", "s", "t", "-", "c", "-", "l", "r", "2", "0", "-", "a", "-", "0">>,
          "ifs-amip-tco399-hist-c-lr20-a-0">>,
      <<<<"i", "f", "s", "-", "a", "m", "i", "p", "-", "t", "c", "o", "3", "9", "9", "-", "h", "i", "s", "t">>,
          "ifs-amip-tco399-hist">>,
      <<<<"i", "c", "o", "n", "-", "e", "s", "m", "-", "e", "r", "-", "h", "i", "g", "h", "r", "e", "s", "-", "f", "u", "t", "u", "r", "e", "-", "s", "s", "p", "2", "4", "5">>,
          "icon">>,
      <<<<"i", "f", "s", "-", "f", "e", "s", "o", "m", "2", "-", "s", "r", "-", "h", "i", "g", "h", "r", "e", "s", "-", "f", "u", "t", "u", "r", "e", "-", "s", "s", "p", "2", "4", "5">>,
          "ifs-fesom2">>,
      <<<<"i", "f", "s", "-", "n", "e", "m", "o", "-", "e", "r", "-", "h", "i", "g", "h", "r", "e", "s", "-", "f", "u", "t", "u", "r", "e", "-", "s", "s", "p", "2", "4", "5">>,
          "ifs-nemo-er">>,
      <<<<"H", "a", "d", "G", "E", "M", "3", "-", "G", "C", "5", "-", "E", "E", "R", "I", "E", "-", "N", "2", "1", "6", "-", "O", "R", "C", "A", "0", "2", "5", "-", "e", "e", "r", "i", "e", "-", "s", "s", "p", "2", "4", "5">>,
          "hadgem3-mediumres">>,
      <<<<"H", "a", "d", "G", "E", "M", "3", "-", "G", "C", "5", "-", "E", "E", "R", "I", "E", "-", "N", "6", "4", "0", "-", "O", "R", "C", "A", "1", "2", "-", "e", "e", "r", "i", "e", "-", "s", "s", "p", "2", "4", "5">>,
          "hadgem3-hires">>,
      <<<<"H", "a", "d", "G", "E", "M", "3", "-", "G", "C", "5", "-", "E", "E", "R", "I", "E", "-", "N", "9", "6", "-", "O", "R", "C", "A", "1", "-", "e", "e", "r", "i", "e", "-", "s", "s", "p", "2", "4", "5">>,
          "hadgem3-lowres">>>>

OCEAN_VARIABLES == {"tos", "sic", "zos", "uo", "vo", "so"}

\* Member.slug
slug(self) == self.attrs.model \o <<"-">> \o self.attrs.simulation

\* cmor.get_raw_variable_name(member, varname), for the variables the drivers
\* of the model process; the raw names are not taken apart and stay whole.
get_raw_variable_name(member, varname) ==
    IF contains(member, Field.icon_esm_er)
    THEN CASE varname = "tos" -> "to"
           [] varname \in {"tasmax", "tasmin"} -> "tas"
           [] OTHER -> varname
    ELSE IF contains(member, <<"a", "m", "i", "p">>)
    THEN CASE varname = "tas" -> "mean2t"
           [] varname = "tasmax" -> "mx2t"
           [] varname = "pr" -> "tprate"
           [] varname = "tos" -> "avg_sst"
    ELSE CASE varname = "tas" -> "mean2t"
           [] varname = "tasmax" -> "mx2t"
           [] varname = "pr" -> "tprate"
           [] varname = "tos" -> "avg_tos"

\* data_processing.rename_realm(member, varname): the in operator and
\* str.replace on the member; a Member object is not a container, and
\* "icon" in member raises TypeError.
rename_realm(member, varname) ==
    IF member.type # "str" THEN [kind |-> "raise", val |-> "TypeError"]
    ELSE
    LET to_ocean_realm == varname \in OCEAN_VARIABLES /\ ~contains(member.str, <<"a", "m", "i", "p">>)
        realm(m) == IF to_ocean_realm THEN replace_all(m, S_atmos, S_ocean) ELSE m
        fesom(m) == IF /\ to_ocean_realm
                       /\ contains(m, Field.ifs_fesom2_sr)
                       /\ (contains(m, Field.hist) \/ contains(m, <<"c", "o", "n", "t", "r", "o", "l">>))
                    THEN replace_all(m, S_monthly, S_daily) \o <<"_", "1", "9", "5", "0", "-", "2", "0", "1", "4">>
                    ELSE m
        extreme == IF varname = "tasmax" THEN S_max ELSE S_min
        icon(m) == IF contains(m, <<"i", "c", "o", "n">>) /\ varname \in {"tasmax", "tasmin"}
                   THEN replace_all(m, <<"m", "o", "n", "t", "h", "l", "y", "_", "m", "e", "a", "n">>, <<"d", "a", "i", "l", "y", "_">> \o extreme)
                   ELSE m
    IN [kind |-> "return",
        val |-> MemberString(
                   CHOOSE member3 \in
                       {icon(member2) : member2 \in
                           {fesom(member1) : member1 \in {realm(member.str)}}} : TRUE)]

\* product_computation.get_complete_input_dataset: the datasets concatenated
\* along time in val, the historical one first, the member returned, and the
\* fetches made, in order.
get_complete_input_dataset(cat, member, rawname, varname) ==
    IF member.type # "Member"
    THEN [kind |-> "raise", val |-> "AttributeError", calls |-> <<>>]
    ELSE IF contains(member.obj.attrs.simulation, <<"f", "u", "t", "u", "r", "e">>)
    THEN LET future == get_member_dataset(cat, member, rawname, varname)
             member_hist == [type |-> "Member",
                             obj |-> replace(member.obj, "simulation", Field.hist_1950)]
             renamed == rename_realm(member_hist, varname)
             hist == get_member_dataset(cat, renamed.val, rawname, varname)
         IN IF future.kind = "raise" THEN future
            ELSE IF renamed.kind = "raise"
            THEN [kind |-> "raise", val |-> renamed.val, calls |-> future.calls]
            ELSE IF hist.kind = "raise"
            THEN [kind |-> "raise", val |-> hist.val, calls |-> future.calls \o hist.calls]
            ELSE [kind |-> "return", val |-> <<hist.val, future.val>>, member |-> member,
                  calls |-> future.calls \o hist.calls]
    ELSE LET dataset == get_member_dataset(cat, member, rawname, varname)
         IN IF dataset.kind = "raise" THEN dataset
            ELSE [kind |-> "return", val |-> <<dataset.val>>, member |-> member,
                  calls |-> dataset.calls]

\* The member objects get_complete_input_dataset is called with: the members
\* of the CMOR lists.
InputMembers ==
    {[type |-> "Member", obj |-> from_string("CmorEerieMember", s).val] :
        s \in Range(members_eerie_future_cmor) \cup Range(members_eerie_hist_cmor)
                  \cup Range(members_eerie_control_cmor)}

\* The catalogue entries of a member and a raw variable: its own and the one
\* of its historical simulation.
EntriesOf(member, rawname) ==
    {<<to_string(member.obj), rawname>>,
     <<to_string(replace(member.obj, "simulation", Field.hist_1950)), rawname>>}

InitInputVars ==
    /\ \E member \in InputMembers, varname \in {"tas", "tos", "tasmax"} :
          \E cat \in SUBSET EntriesOf(member, varname) :
             gc_in = [catalogue |-> cat, member |-> member, rawname |-> varname,
                      varname |-> varname]
    /\ gc = [kind |-> "none"]

IdleInput ==
    /\ gc_in = <<>>
    /\ gc = [kind |-> "idle"]

\* A call of get_complete_input_dataset(catalogue, get_entry_dataset_fun,
\* location, member, rawname, varname).
CallGetCompleteInputDataset ==
    /\ gc.kind = "none"
    /\ gc' = get_complete_input_dataset(gc_in.catalogue, gc_in.member, gc_in.rawname,
                                        gc_in.varname)
    /\ UNCHANGED gc_in
    /\ UNCHANGED notInput

\* C27: under a catalogue that holds every entry asked for,
\* get_complete_input_dataset returns normally; for a member of a future
\* simulation it has fetched the future entry and then the hist-1950 entry
\* and returns the historical dataset followed by the future one, for any
\* other member it has fetched one entry and returns its dataset.
C27_CompleteInputDataset ==
    (gc.kind \notin {"none", "idle"} /\ gc_in.catalogue = EntriesOf(gc_in.member, gc_in.rawname))
    => LET own == <<to_string(gc_in.member.obj), gc_in.rawname>>
           hist == <<to_string(replace(gc_in.member.obj, "simulation", Field.hist_1950)),
                     gc_in.rawname>>
       IN /\ gc.kind = "return"
          /\ IF contains(gc_in.member.obj.attrs.simulation, <<"f", "u", "t", "u", "r", "e">>)
             THEN gc.calls = <<own, hist>> /\ gc.val = <<hist, own>>
             ELSE gc.calls = <<own>> /\ gc.val = <<own>>

(***************************************************************************)
(* The batch drivers of scripts/ and the tests: the member list, the       *)
(* member class and the periods each one hands to the product functions,   *)
(* the member labels the product gets, and the shortening of the labels    *)
(* by scripts/upload_to_zarr.py.  The catalogue holds every entry asked    *)
(* for.                                                                    *)
(***************************************************************************)
\* A (start_year, end_year) tuple as an element of a list of periods.
Period(start_year, end_year) == [type |-> "tuple", val |-> <<start_year, end_year>>]

\* list += tuple: the list is extended with the elements of the tuple.
list_extend(list, tuple) ==
    list \o [i \in 1..Len(tuple.val) |-> [type |-> "int", val |-> tuple.val[i]]]

\* What a driver hands to the product function: fun is the function called,
\* of product_computation.py ("decadal", "series") or the
\* get_model_time_series of scripts/get_time_series.py ("scripts_series").
Driver(name, product) ==
    CASE name = "main_control" ->
            [fun |-> "decadal", members |-> members_eerie_control_cmor,
             member_class |-> "EERIEMember", upload |-> TRUE,
             reference_period |-> Period(1951, 1980),
             periods |-> <<Period(1951, 1980), Period(1971, 2000), Period(1991, 2020),
                           Period(2021, 2050)>>]
      [] name = "main_future" ->
            [fun |-> "decadal", members |-> members_eerie_future_cmor,
             member_class |-> "EERIEMember", upload |-> TRUE,
             reference_period |-> Period(1951, 1980),
             periods |->
                 LET periods == <<Period(1971, 2000), Period(1991, 2020), Period(2021, 2050)>>
                 IN IF product = "trend" THEN list_extend(periods, Period(1951, 2050))
                    ELSE periods]
      [] name = "main_hist" ->
            [fun |-> "decadal", members |-> members_eerie_hist_cmor,
             member_class |-> "EERIEMember", upload |-> TRUE,
             reference_period |-> Period(1951, 1980),
             periods |-> <<Period(1971, 2000), Period(1991, 2020)>>]
      [] name = "main_amip" ->
            [fun |-> "decadal", members |-> members_eerie_hist_amip,
             member_class |-> "EERIEMember", upload |-> TRUE,
             reference_period |-> Period(1981, 2010),
             periods |-> <<Period(1991, 2020)>>]
      [] name = "test_get_model_decadal_product" ->
            [fun |-> "decadal", members |-> members_eerie_control_cmor,
             member_class |-> "CmorEerieMember", upload |-> FALSE,
             reference_period |-> Period(1951, 1970),
             periods |-> <<Period(1971, 1990), Period(1991, 2010)>>]
      [] name = "get_global_temp_time_series.control" ->
            [fun |-> "series", members |-> members_eerie_control_cmor,
             member_class |-> "CmorEerieMember", upload |-> TRUE,
             reference_period |-> Period(1951, 1980), periods |-> <<>>]
      [] name = "get_global_temp_time_series.future" ->
            [fun |-> "series", members |-> members_eerie_future_cmor,
             member_class |-> "CmorEerieMember", upload |-> TRUE,
             reference_period |-> Period(1951, 1980), periods |-> <<>>]
      [] name = "get_time_series.control" ->
            [fun |-> "scripts_series", members |-> members_eerie_control,
             member_class |-> "EERIEMember", upload |-> TRUE,
             reference_period |-> Period(1951, 1980), periods |-> <<>>]
      [] name = "get_time_series.hist" ->
            [fun |-> "scripts_series", members |-> members_eerie_hist,
             member_class |-> "EERIEMember", upload |-> TRUE,
             reference_period |-> Period(1951, 1980), periods |-> <<>>]
      [] name = "get_time_series.hist-amip" ->
            [fun |-> "scripts_series", members |-> members_eerie_hist_amip,
             member_class |-> "EERIEMember", upload |-> FALSE,
             reference_period |-> Period(1981, 2000), periods |-> <<>>]
      [] name = "test_get_model_time_series" ->
            [fun |-> "scripts_series", members |-> members_eerie_hist,
             member_class |-> "EERIEMember", upload |-> FALSE,
             reference_period |-> Period(1951, 1980), periods |-> <<>>]

\* The calls the drivers and the tests make: name, product and variable.
DriverCalls ==
    [name : {"main_control", "main_future", "main_hist"}, product : {"clim", "trend"},
     varname : {"tas", "tos", "tasmax"}]
    \cup [name : {"main_amip"}, product : {"clim"}, varname : {"tas", "tos", "tasmax"}]
    \cup [name : {"test_get_model_decadal_product"}, product : {"clim"}, varname : {"tos"}]
    \cup [name : {"get_global_temp_time_series.control",
                  "get_global_temp_time_series.future"},
          product : {"series"}, varname : {"tas"}]
    \cup [name : {"get_time_series.control", "get_time_series.hist",
                  "get_time_series.hist-amip"},
          product : {"series"}, varname : {"tas", "tos", "tasmax"}]
    \cup [name : {"test_get_model_time_series"}, product : {"series"},
          varname : {"tas", "pr"}]

\* PeriodsConfig.all_list of a driver.
PeriodsConfig_all_list(d) == <<d.reference_period>> \o d.periods

\* upload_to_zarr.shorten_members: Index.map(member2shortmeber) gives a
\* missing value for a label without key, and the assert fails on it.
shorten_members(labels) ==
    LET short(label) ==
            IF \E k \in DOMAIN member2shortmeber : member2shortmeber[k][1] = label
            THEN member2shortmeber[CHOOSE k \in DOMAIN member2shortmeber :
                                       member2shortmeber[k][1] = label][2]
            ELSE "nan"
        mapped == [i \in DOMAIN labels |-> short(labels[i])]
    IN IF \E i \in DOMAIN mapped : mapped[i] = "nan"
       THEN [kind |-> "raise", val |-> "AssertionError"]
       ELSE Returns(mapped)

InitDriverVars ==
    /\ \E c \in DriverCalls :
          dr_in = [name |-> c.name, product |-> c.product, varname |-> c.varname,
                   call |-> Driver(c.name, c.product)]
    /\ dr = [pc |-> "member", i |-> 1, member |-> <<>>, rawname |-> "", labels |-> <<>>,
             exc |-> "none"]

IdleDriver ==
    /\ dr_in = <<>>
    /\ dr = [pc |-> "idle"]

\* The head of the loop over the members.  product_computation.py: the
\* member object is built by member_class.from_string, moved to the ocean
\* realm for an ocean variable, and to the table "day" for tasmax and tasmin
\* of ICON in get_model_time_series.  scripts/get_time_series.py: the member
\* string is passed through rename_realm.
PrepareMember ==
    /\ dr.pc = "member"
    /\ LET d == dr_in.call
           varname == dr_in.varname
       IN IF d.fun = "scripts_series"
          THEN \E member \in {rename_realm(MemberString(d.members[dr.i]), varname).val} :
                  dr' = [dr EXCEPT !.pc = "fetch", !.member = member,
                                   !.rawname = get_raw_variable_name(member.str, varname)]
          ELSE \E parsed \in {from_string(d.member_class, d.members[dr.i])} :
                  IF parsed.kind = "raise"
                  THEN dr' = [dr EXCEPT !.pc = "aborted", !.exc = parsed.val]
                  ELSE \E member_obj \in {IF varname \in OCEAN_VARIABLES
                                          THEN to_ocean(parsed.val).val
                                          ELSE parsed.val} :
                          dr' = [dr EXCEPT
                                    !.pc = "fetch",
                                    !.member =
                                        [type |-> "Member",
                                         obj |-> IF /\ d.fun = "series"
                                                    /\ member_obj.cls = "CmorEerieMember"
                                                    /\ varname \in {"tasmax", "tasmin"}
                                                    /\ contains(member_obj.attrs.model, <<"i", "c", "o", "n">>)
                                                 THEN replace(member_obj, "cmor_table", S_day)
                                                 ELSE member_obj],
                                    !.rawname =
                                        IF member_obj.cls = "CmorEerieMember" THEN varname
                                        ELSE get_raw_variable_name(to_string(member_obj),
                                                                   varname)]
    /\ UNCHANGED dr_in
    /\ UNCHANGED notDriver

\* The dataset of the member is fetched: get_complete_input_dataset in
\* product_computation.py, get_entry_dataset_fun in scripts/get_time_series.py.
FetchInput ==
    /\ dr.pc = "fetch"
    /\ IF dr_in.call.fun = "scripts_series"
       THEN dr' = [dr EXCEPT !.pc = "label"]
       ELSE \E got \in {get_complete_input_dataset(EntriesOf(dr.member, dr.rawname),
                                                   dr.member, dr.rawname, dr_in.varname)} :
               IF got.kind = "raise"
               THEN dr' = [dr EXCEPT !.pc = "aborted", !.exc = got.val]
               ELSE dr' = [dr EXCEPT !.pc = "label"]
    /\ UNCHANGED dr_in
    /\ UNCHANGED notDriver

\* The rest of the loop body: get_model_decadal_product slices every period
\* of all_list by period[0] and period[1] and labels the fragments with
\* member.slug; get_model_time_series labels them with
\* member_obj.to_atmos().slug, and the one of scripts/get_time_series.py with
\* EERIEMember.from_string(member.replace("ocean", "atmos")).slug.  After
\* the last member the product is written.
LabelMember ==
    /\ dr.pc = "label"
    /\ LET d == dr_in.call
           r == IF d.fun = "scripts_series"
                THEN LET parsed == from_string("EERIEMember",
                                               replace_all(dr.member.str, S_ocean, S_atmos))
                     IN IF parsed.kind = "raise" THEN parsed ELSE Returns(slug(parsed.val))
                ELSE IF d.fun = "series"
                THEN Returns(slug(to_atmos(dr.member.obj).val))
                ELSE IF \E k \in DOMAIN PeriodsConfig_all_list(d) :
                           PeriodsConfig_all_list(d)[k].type # "tuple"
                THEN [kind |-> "raise", val |-> "TypeError"]
                ELSE Returns(slug(dr.member.obj))
       IN \E final_member \in {r} :
             IF final_member.kind = "raise"
             THEN dr' = [dr EXCEPT !.pc = "aborted", !.exc = final_member.val]
             ELSE dr' = [dr EXCEPT !.labels = Append(@, final_member.val),
                                   !.i = @ + 1,
                                   !.pc = IF dr.i = Len(d.members) THEN "written"
                                          ELSE "member"]
    /\ UNCHANGED dr_in
    /\ UNCHANGED notDriver

\* upload_eerie_climatologies / upload_eerie_time_series on the product.
Upload ==
    /\ dr.pc = "written"
    /\ dr_in.call.upload
    /\ LET r == shorten_members(dr.labels)
       IN IF r.kind = "raise"
          THEN dr' = [dr EXCEPT !.pc = "aborted", !.exc = r.val]
          ELSE dr' = [dr EXCEPT !.pc = "uploaded", !.labels = r.val]
    /\ UNCHANGED dr_in
    /\ UNCHANGED notDriver

\* C24: every label of a product written by get_model_decadal_product or
\* get_model_time_series from a predefined member list is a key of
\* member2shortmeber, and shorten_members raises no AssertionError on it.
C24_EveryLabelHasShortName ==
    /\ (dr.pc = "written" /\ dr_in.call.upload)
       => \A i \in DOMAIN dr.labels :
             \E k \in DOMAIN member2shortmeber : member2shortmeber[k][1] = dr.labels[i]
    /\ dr.pc = "aborted" => dr.exc # "AssertionError"

\* C25: every member string a driver or a test hands over has as many
\* dot-separated fields as the member class in effect for the call expects,
\* 6 in the non-CMOR lists and 5 in the CMOR lists, and no call raises the
\* RuntimeError of from_string.
C25_MembersParseUnderTheirClass ==
    dr.pc # "idle"
    => /\ \A i \in DOMAIN dr_in.call.members :
             Len(split(dr_in.call.members[i])) = npieces(dr_in.call.member_class)
       /\ \A list \in {members_eerie_control, members_eerie_hist, members_eerie_future,
                       members_eerie_hist_amip} :
             \A i \in DOMAIN list : Len(split(list[i])) = npieces("EERIEMember")
       /\ \A list \in {members_eerie_control_cmor, members_eerie_hist_cmor,
                       members_eerie_future_cmor} :
             \A i \in DOMAIN list : Len(split(list[i])) = npieces("CmorEerieMember")
       /\ ~(dr.pc = "aborted" /\ dr.exc = "RuntimeError")

\* C26: every entry of the periods of main_control, main_future, main_hist
\* and main_amip is a pair of years with start_year <= end_year, for "clim"
\* and for "trend", and no call raises on an element of all_list.
C26_PeriodsArePairs ==
    (dr.pc # "idle" /\ dr_in.name \in {"main_control", "main_future", "main_hist", "main_amip"})
    => \A k \in DOMAIN dr_in.call.periods :
          /\ dr_in.call.periods[k].type = "tuple"
          /\ dr_in.call.periods[k].val[1] <= dr_in.call.periods[k].val[2]

(***************************************************************************)
(* fix_units of data_processing.py.  A dataset is the units attribute of   *)
(* its variable and the values, one row of cells per time step.  A value   *)
(* is m * 86400^e hundredths, kept as the pair of m and e, so that 273.15  *)
(* is m = 27315 and a product with the seconds of a day stays exact.       *)
(***************************************************************************)
\* dataset[varname].isel(time=5).max(): the threshold it is compared with.
KelvinThreshold == 20000
\* dataset[varname] - 273.15
KelvinOffset == 27315
\* factor = 86400  # seconds in a day
SecondsInADay == 86400
\* factor *= 1000  # meters to millimeters
MetersToMillimeters == 1000

S_m_s_1 == <<"m", " ", "s", "*", "*", "-", "1">>

\* The value of h hundredths; zero has the exponent 0.
Value(h) == [m |-> h, e |-> 0]
hundredths(v) == v.m * SecondsInADay ^ v.e

\* value * factor, for a factor that is a multiple of 86400.
times_factor(v, factor) ==
    IF v.m = 0 THEN v ELSE [m |-> v.m * (factor \div SecondsInADay), e |-> v.e + 1]

\* value - 273.15
minus_offset(v) == Value(hundredths(v) - KelvinOffset)

\* The largest value of a row of cells.
max(row) == CHOOSE v \in Range(row) : \A w \in Range(row) : hundredths(w) <= hundredths(v)

\* The values of a dataset, each one mapped by f.
map_values(vals, f(_)) == [t \in DOMAIN vals |-> [c \in DOMAIN vals[t] |-> f(vals[t][c])]]

\* The precipitation branch of fix_units.
fix_pr(dataset) ==
    LET units == dataset.units
        factor == IF contains(units, S_m_s_1) THEN SecondsInADay * MetersToMillimeters
                  ELSE SecondsInADay
    IN [units |-> <<"m", "m", " ", "d", "a", "y", "-", "1">>,
        vals |-> IF units # <<"m", "m">>
                 THEN map_values(dataset.vals, LAMBDA v : times_factor(v, factor))
                 ELSE dataset.vals]

\* The temperature branch of fix_units; isel(time=5) raises IndexError on a
\* time axis of less than six steps.
fix_temperature(dataset, product) ==
    IF Len(dataset.vals) < 6 THEN [kind |-> "raise", val |-> "IndexError"]
    ELSE IF hundredths(max(dataset.vals[6])) > KelvinThreshold
    THEN Returns([units |-> <<"d", "e", "g", "C">>,
                  vals |-> IF product # "trend"
                           THEN map_values(dataset.vals, minus_offset)
                           ELSE dataset.vals])
    ELSE Returns(dataset)

TemperatureVariables == {"tasmax", "tasmin", "tas", "tos"}

\* fix_units(dataset, varname, product).
fix_units(dataset, varname, product) ==
    IF varname = "pr" THEN Returns(fix_pr(dataset))
    ELSE IF varname \in TemperatureVariables THEN fix_temperature(dataset, product)
    ELSE Returns(dataset)

\* The datasets handed in: six or three time steps of two cells; the cells
\* of a time step hold 0, 15.00 or 288.15.
UnitsDatasets ==
    LET Values == {Value(0), Value(1500), Value(28815)}
    IN {[units |-> u, vals |-> [t \in 1..n |-> IF t = n THEN <<b1, b2>> ELSE <<a, a>>]] :
           u \in {<<"m", "m", " ", "d", "a", "y", "-", "1">>, <<"m", "m">>, S_m_s_1,
                  <<"k", "g", " ", "m", "-", "2", " ", "s", "-", "1">>, <<"K">>,
                  <<"d", "e", "g", "C">>},
           n \in {3, 6}, a \in Values, b1 \in Values, b2 \in Values}

InitUnitsVars ==
    /\ \E dataset \in UnitsDatasets, varname \in {"pr", "tas", "tos", "clt"},
          product \in {"clim", "trend", "series"} :
          fu_in = [dataset |-> dataset, varname |-> varname, product |-> product]
    /\ fu = [pc |-> "call", out |-> <<>>]

IdleUnits ==
    /\ fu_in = <<>>
    /\ fu = [pc |-> "idle", out |-> <<>>]

\* A call of fix_units: the first on the dataset handed in, the second on
\* what the first returned.
CallFixUnits ==
    /\ fu.pc = "call"
    /\ \/ /\ Len(fu.out) = 0
          /\ fu' = [fu EXCEPT !.out = <<fix_units(fu_in.dataset, fu_in.varname,
                                                    fu_in.product)>>]
       \/ /\ Len(fu.out) = 1
          /\ fu.out[1].kind = "return"
          /\ fu' = [fu EXCEPT !.out = Append(@, fix_units(fu.out[1].val, fu_in.varname,
                                                           fu_in.product))]
    /\ UNCHANGED fu_in
    /\ UNCHANGED notUnits

\* C28: a call of fix_units leaves the values of precipitation in
\* "mm day-1" and of temperature in degC unchanged, never shifts the
\* temperature of a "trend" product, and a second call on the result of
\* the first returns the same values and units.
C28_FixUnitsIdempotent ==
    (fu.pc = "call" /\ Len(fu.out) >= 1 /\ fu.out[1].kind = "return")
    => LET d == fu_in.dataset
           celsius == /\ d.units = <<"d", "e", "g", "C">>
                      /\ \A t \in DOMAIN d.vals : hundredths(max(d.vals[t])) <= KelvinThreshold
       IN /\ (fu_in.varname = "pr" /\ d.units = <<"m", "m", " ", "d", "a", "y", "-", "1">>)
             => fu.out[1].val.vals = d.vals
          /\ (fu_in.varname \in TemperatureVariables /\ celsius)
             => fu.out[1].val.vals = d.vals
          /\ (fu_in.varname \in TemperatureVariables /\ fu_in.product = "trend")
             => fu.out[1].val.vals = d.vals
          /\ (Len(fu.out) = 2 /\ fu.out[2].kind = "return") => fu.out[2].val = fu.out[1].val

(***************************************************************************)
(* compute_eke_for_member of scripts/get_monthly_eke.py, called by main    *)
(* for the members of the CMOR lists, and get_diagnostic of                *)
(* data_access.py, which reads its product.  The files of DIAGSDIR are the *)
(* set of their names.                                                     *)
(***************************************************************************)
MaxEkeCalls == 2   \* calls of compute_eke_for_member for a member

\* The members main calls compute_eke_for_member for.
EkeMembers ==
    {s \in Range(members_eerie_future_cmor) \cup Range(members_eerie_hist_cmor)
               \cup Range(members_eerie_control_cmor) :
        ~(contains(s, <<"H", "a", "d", "G", "E", "M", "3">>) \/ contains(s, <<"n", "e", "m", "o">>))}

\* The member the data is asked for: ocean, daily, and the table HROday for
\* the IFS and ICON models.
eke_input_member(member) ==
    LET daily == to_daily(to_ocean(member).val).val
    IN IF \/ contains(daily.attrs.model, <<"i", "f", "s", "-", "n", "e", "m", "o">>)
          \/ contains(daily.attrs.model, Field.ifs_fesom2_sr)
          \/ contains(daily.attrs.model, <<"i", "c", "o", "n">>)
       THEN replace(daily, "cmor_table", S_HROday)
       ELSE daily

\* output_path, the path of the existence check.
eke_output_path(member) ==
    <<"e", "k", "e", "_">> \o slug(to_atmos(eke_input_member(member)).val) \o <<"_", "m", "o", "n", "t", "h", "l", "y", ".", "n", "c">>

\* The path handed to safe_to_zarr.
eke_zarr_path(member) == replace_all(eke_output_path(member), <<".", "n", "c">>, <<".", "z", "a", "r", "r">>)

\* The files compute_monthly_eke leaves behind.
eke_intermediate_files(member) ==
    LET final_member == slug(to_atmos(eke_input_member(member)).val)
    IN {<<"z", "o", "s", "_", "c", "l", "i", "m", "_">> \o final_member \o <<"_", "d", "a", "y", "o", "f", "y", "e", "a", "r", ".", "z", "a", "r", "r">>,
        <<"z", "o", "s", "_", "a", "n", "o", "m", "_">> \o final_member \o <<"_", "d", "a", "i", "l", "y", ".", "z", "a", "r", "r">>}

\* get_diagnostic: the file it opens, or the RuntimeError of from_string.
get_diagnostic(files, member_string, rawname) ==
    LET parsed == from_string("EERIEMember", member_string)
    IN IF parsed.kind = "raise" THEN [kind |-> "raise", val |-> parsed.val, path |-> <<>>]
       ELSE LET diagfile == rawname \o <<"_">> \o slug(parsed.val) \o <<"_", "m", "o", "n", "t", "h", "l", "y", ".", "n", "c">>
            IN IF diagfile \in files
               THEN [kind |-> "return", val |-> diagfile, path |-> diagfile]
               ELSE [kind |-> "raise", val |-> "FileNotFoundError", path |-> diagfile]

InitEkeVars ==
    /\ \E s \in EkeMembers, clobber \in BOOLEAN, found \in BOOLEAN :
          \E member \in {from_string("CmorEerieMember", s).val} :
             ek_in = [member |-> member, clobber |-> clobber,
                      catalogue |-> IF found
                                    THEN {<<to_string(eke_input_member(member)), <<"z", "o", "s">>>>}
                                    ELSE {}]
    /\ \E files \in {{}, {eke_output_path(ek_in.member)}} :
          ek = [pc |-> "ready", files |-> files, log |-> <<>>, diag |-> [kind |-> "none"]]

IdleEke ==
    /\ ek_in = <<>>
    /\ ek = [pc |-> "idle"]

\* A call of compute_eke_for_member(member, location, clobber).
CallComputeEke ==
    /\ ek.pc = "ready"
    /\ Len(ek.log) < MaxEkeCalls
    /\ \E member \in {eke_input_member(ek_in.member)},
          output_path \in {eke_output_path(ek_in.member)} :
          IF output_path \in ek.files /\ ~ek_in.clobber
          THEN ek' = [ek EXCEPT !.log = Append(@, [outcome |-> "skipped", fetches |-> 0,
                                                   writes |-> 0])]
          ELSE \E dataset \in {get_member_dataset(ek_in.catalogue,
                                                  [type |-> "Member", obj |-> member],
                                                  <<"z", "o", "s">>, "zos")} :
                  IF dataset.kind = "raise"
                  THEN ek' = [ek EXCEPT !.pc = "aborted",
                                        !.log = Append(@, [outcome |-> dataset.val,
                                                           fetches |-> Len(dataset.calls),
                                                           writes |-> 0])]
                  ELSE ek' = [ek EXCEPT
                                 !.files = @ \cup eke_intermediate_files(ek_in.member)
                                             \cup {eke_zarr_path(ek_in.member)},
                                 !.log = Append(@, [outcome |-> "computed",
                                                    fetches |-> Len(dataset.calls),
                                                    writes |-> 1])]
    /\ UNCHANGED ek_in
    /\ UNCHANGED notEke

\* get_time_series asks get_diagnostic for the variable eke of a member of
\* its lists.
CallGetDiagnostic ==
    /\ ek.pc = "ready"
    /\ ek.diag.kind = "none"
    /\ \E s \in Range(members_eerie_control) \cup Range(members_eerie_hist) :
          ek' = [ek EXCEPT !.diag = get_diagnostic(ek.files, s, <<"e", "k", "e">>)]
    /\ UNCHANGED ek_in
    /\ UNCHANGED notEke

\* C30: after a call of compute_eke_for_member that computed, the path of
\* its existence check exists (the file get_diagnostic opens for the same
\* model and simulation), and with clobber = False every later call for the
\* member makes no fetch and no write.
C30_EkeIdempotent ==
    ek.pc # "idle"
    => /\ (\E i \in DOMAIN ek.log : ek.log[i].outcome = "computed")
          => eke_output_path(ek_in.member) \in ek.files
       /\ \A i, j \in DOMAIN ek.log :
             (i < j /\ ek.log[i].outcome = "computed" /\ ~ek_in.clobber)
             => ek.log[j].fetches = 0 /\ ek.log[j].writes = 0
       /\ \A s \in Range(members_eerie_control) \cup Range(members_eerie_hist) :
             LET parsed == from_string("EERIEMember", s)
             IN (parsed.kind = "return" /\ slug(parsed.val) = slug(ek_in.member))
                => get_diagnostic(ek.files, s, <<"e", "k", "e">>).path
                      = eke_output_path(ek_in.member)

(***************************************************************************)
(* The specifications.                                                     *)
(***************************************************************************)
InitMember == InitMemberVars /\ IdleTrend /\ IdleApi /\ IdleTime /\ IdleSlice /\ IdleFetch
    /\ IdleRun /\ IdleOutput /\ IdleInput /\ IdleDriver /\ IdleUnits /\ IdleEke

NextMember ==
    \/ CallFromString
    \/ \E op \in Transforms, self \in 1..MaxObjects : CallTransform(op, self)
    \/ \E self \in 1..MaxObjects : CallToString(self)

SpecMember == InitMember /\ [][NextMember]_vars

InitTrend == InitTrendVars /\ IdleMember /\ IdleApi /\ IdleTime /\ IdleSlice /\ IdleFetch
    /\ IdleRun /\ IdleOutput /\ IdleInput /\ IdleDriver /\ IdleUnits /\ IdleEke

NextTrend == Step0 \/ Step1 \/ Step2 \/ Step3 \/ Step4 \/ CrashLtr

SpecTrend == InitTrend /\ [][NextTrend]_vars

InitApi == InitApiVars /\ IdleMember /\ IdleTrend /\ IdleTime /\ IdleSlice /\ IdleFetch
    /\ IdleRun /\ IdleOutput /\ IdleInput /\ IdleDriver /\ IdleUnits /\ IdleEke

NextApi == \E as_decadal \in BOOLEAN : ComputeTrend(as_decadal)

SpecApi == InitApi /\ [][NextApi]_vars

InitTime == InitTimeVars /\ IdleMember /\ IdleTrend /\ IdleApi /\ IdleSlice /\ IdleFetch
    /\ IdleRun /\ IdleOutput /\ IdleInput /\ IdleDriver /\ IdleUnits /\ IdleEke

NextTime ==
    \/ CallGetTimeFilters
    \/ \E units \in UnitNames, original_freq \in CadenceNames :
          CallGetMinvalues(units, original_freq)
    \/ FilterTimeAxis
    \/ GetTimeSeries

SpecTime == InitTime /\ [][NextTime]_vars

InitSlice == InitSliceVars /\ IdleMember /\ IdleTrend /\ IdleApi /\ IdleTime /\ IdleFetch
    /\ IdleRun /\ IdleOutput /\ IdleInput /\ IdleDriver /\ IdleUnits /\ IdleEke

NextSlice == CallSlicePeriod

SpecSlice == InitSlice /\ [][NextSlice]_vars

InitFetch ==
    InitFetchVars /\ IdleMember /\ IdleTrend /\ IdleApi /\ IdleTime /\ IdleSlice
        /\ IdleRun /\ IdleOutput /\ IdleInput /\ IdleDriver /\ IdleUnits /\ IdleEke

NextFetch == CallGetMemberDataset

SpecFetch == InitFetch /\ [][NextFetch]_vars

InitRun ==
    InitRunVars /\ IdleMember /\ IdleTrend /\ IdleApi /\ IdleTime /\ IdleSlice
        /\ IdleFetch /\ IdleOutput /\ IdleInput /\ IdleDriver /\ IdleUnits /\ IdleEke

NextRun == Begin \/ FetchMember \/ Product \/ Write \/ CallAgain \/ CallAfterAbort

SpecRun == InitRun /\ [][NextRun]_vars

InitOutput ==
    InitOutputVars /\ IdleMember /\ IdleTrend /\ IdleApi /\ IdleTime
        /\ IdleSlice /\ IdleFetch /\ IdleRun /\ IdleInput /\ IdleDriver /\ IdleUnits /\ IdleEke

NextOutput ==
    MakeTemp \/ WriteTemp \/ ShutilMove \/ Copy \/ ExistsCheck \/ Rmtree \/ Rename \/ Crash

SpecOutput == InitOutput /\ [][NextOutput]_vars

InitInput ==
    InitInputVars /\ IdleMember /\ IdleTrend /\ IdleApi /\ IdleTime
        /\ IdleSlice /\ IdleFetch /\ IdleRun /\ IdleOutput /\ IdleDriver /\ IdleUnits /\ IdleEke

NextInput == CallGetCompleteInputDataset

SpecInput == InitInput /\ [][NextInput]_vars

InitDriver ==
    InitDriverVars /\ IdleMember /\ IdleTrend /\ IdleApi /\ IdleTime
        /\ IdleSlice /\ IdleFetch /\ IdleRun /\ IdleOutput /\ IdleInput /\ IdleUnits /\ IdleEke

NextDriver == PrepareMember \/ FetchInput \/ LabelMember \/ Upload

SpecDriver == InitDriver /\ [][NextDriver]_vars

InitUnits ==
    InitUnitsVars /\ IdleMember /\ IdleTrend /\ IdleApi /\ IdleTime
        /\ IdleSlice /\ IdleFetch /\ IdleRun /\ IdleOutput /\ IdleInput /\ IdleDriver /\ IdleEke

NextUnits == CallFixUnits

SpecUnits == InitUnits /\ [][NextUnits]_vars

InitEke ==
    InitEkeVars /\ IdleMember /\ IdleTrend /\ IdleApi /\ IdleTime
        /\ IdleSlice /\ IdleFetch /\ IdleRun /\ IdleOutput /\ IdleInput /\ IdleDriver /\ IdleUnits

NextEke == CallComputeEke \/ CallGetDiagnostic

SpecEke == InitEke /\ [][NextEke]_vars

----------------------------------------------------------------------------
(***************************************************************************)
(* Properties of the member keys, checked under SpecMember.                *)
(***************************************************************************)

\* The number of dots of a string, counted without splitting it.
RECURSIVE NumDots(_)
NumDots(s) == IF s = <<>> THEN 0 ELSE (IF Head(s) = Dot THEN 1 ELSE 0) + NumDots(Tail(s))

\* The arity of each member class as the specification states it.
Arity(c) == IF c = "Member" THEN 4 ELSE IF c = "EERIEMember" THEN 6 ELSE 5

\* s with its first character rewritten from old to new, when it is old.
LeadingLetter(s, old, new) ==
    IF s # <<>> /\ s[1] = old THEN <<new>> \o Tail(s) ELSE s

\* C1: a member identifier with the field count of its class serializes back
\* to the identical string it was parsed from, and parsing that string again
\* gives the same key.
C1_RoundTrip ==
    (ret.op = "to_string" /\ made[ret.self].op = "from_string") =>
        /\ ret.val = member_str
        /\ from_string(cls, ret.val) = Returns(heap[ret.self])

\* C1 witness: a six-field identifier with an empty field has been parsed as
\* an EERIEMember and serialized again.
C1_Witness ==
    /\ ret.op = "to_string"
    /\ made[ret.self].op = "from_string"
    /\ cls = "EERIEMember"
    /\ NumDots(member_str) = 5
    /\ member_str[1] = Dot

\* C2: for an EERIEMember parsed from model.simulation.version.atmos.grid.freq,
\* to_ocean().to_string() is the same string with only the fourth segment,
\* 'atmos', replaced by 'ocean'.
C2_ToOceanReplacesRealmSegment ==
    (/\ ret.op = "to_string"
     /\ made[ret.self].op = "to_ocean"
     /\ made[made[ret.self].self].op = "from_string"
     /\ cls = "EERIEMember"
     /\ split(member_str)[4] = S_atmos) =>
        ret.val = join([split(member_str) EXCEPT ![4] = S_ocean])

\* C3: on a CmorEerieMember with a table code in use, to_ocean and to_atmos
\* rewrite only the leading letter of the table code (A to O, O to A) and
\* leave every other character and every other field unchanged.
C3_OnlyLeadingLetterRewritten ==
    (/\ ret.op \in {"to_ocean", "to_atmos"}
     /\ ret.kind = "return"
     /\ heap[ret.self].cls = "CmorEerieMember"
     /\ heap[ret.self].attrs.cmor_table \in TableCodes) =>
        LET old == heap[ret.self]
            table == IF ret.op = "to_ocean"
                     THEN LeadingLetter(old.attrs.cmor_table, "A", "O")
                     ELSE LeadingLetter(old.attrs.cmor_table, "O", "A")
        IN /\ heap[ret.val].cls = old.cls
           /\ heap[ret.val].attrs = [old.attrs EXCEPT !.cmor_table = table]

\* C4: to_ocean and to_daily are idempotent on the keys of both variants: a
\* key returned by to_ocean (to_daily) of a key that to_ocean (to_daily)
\* itself returned equals that key.
C4_DerivedKeyIdempotence ==
    \A i \in DOMAIN heap :
        (/\ made[i].op \in {"to_ocean", "to_daily"}
         /\ made[made[i].self].op = made[i].op) =>
            heap[i] = heap[made[i].self]

\* C5: from_string raises exactly when the number of dot-separated fields of
\* the input differs from the arity of the class (4, 6, 5); when it does not
\* raise it builds a key of that class whose fields are the input's.
C5_FromStringFailsIffWrongCount ==
    (ret.op = "from_string") =>
        /\ ret.kind \in {"raise", "return"}
        /\ (ret.kind = "raise") <=> (NumDots(member_str) + 1 # Arity(cls))
        /\ (ret.kind = "raise") => (ret.val = "RuntimeError" /\ heap = <<>>)
        /\ (ret.kind = "return") =>
              /\ heap[ret.val].cls = cls
              /\ Cardinality(DOMAIN heap[ret.val].attrs) = NumDots(member_str) + 1

\* C5 witness: from_string has rejected a six-field identifier on the
\* five-field class.
C5_Witness ==
    /\ ret.op = "from_string"
    /\ cls = "CmorEerieMember"
    /\ ret.kind = "raise"
    /\ NumDots(member_str) = 5

\* C6: to_ocean, to_atmos and to_daily never change a field of an existing
\* key, and the key they return is a new object.
C6_TransformsNeverMutate ==
    [][/\ \A i \in DOMAIN heap : i \in DOMAIN heap' /\ heap'[i] = heap[i]
       /\ (heap' # heap /\ ret'.op \in Transforms) =>
             /\ ret'.val \in DOMAIN heap' \ DOMAIN heap
             /\ to_string(heap'[ret'.self]) = to_string(heap[ret'.self])]_vars

\* C6 witness: two transforms have been called in sequence starting from the
\* parsed key, one of them changing a field, and the parsed key still
\* serializes to the input.
C6_Witness ==
    /\ Len(heap) = 3
    /\ made[2].self = 1
    /\ made[3].self = 2
    /\ heap[2] # heap[1]
    /\ to_string(heap[1]) = member_str

----------------------------------------------------------------------------
(***************************************************************************)
(* Properties of the trend estimator, checked under SpecTrend.             *)
(***************************************************************************)

\* The number of entries of ys that are not NaN.
RECURSIVE NumValid(_)
NumValid(ys) ==
    IF ys = <<>> THEN 0 ELSE (IF IsNaN(Head(ys)) THEN 0 ELSE 1) + NumValid(Tail(ys))

\* The decimal digit of the irregularity code at the place k = 1, 10, 100, 1000.
Flag(irrc, k) == (irrc \div k) % 10

\* C7: for a uniform grid x and a series y of the same length with fewer than
\* 3 non-NaN entries in y, the call returns exactly slope NaN, stderr +inf,
\* p-value 1.0, half-width +inf, DOFr 0, rho NaN and irregularity code 1000.
C7_InsufficientDataDefaults ==
    (/\ pc \in {"return", "raise", "crash"}
     /\ x = uniform(Len(y))
     /\ NumValid(y) < 3) =>
        /\ pc = "return"
        /\ fr.b = NaN
        /\ fr.sig = Inf
        /\ fr.pval = Num(1)
        /\ fr.cinthw = Inf
        /\ fr.DOFr = DOF(0, RhoZero)
        /\ fr.rho = RhoNaN
        /\ fr.irrc = 1000

\* C8: the irregularity code returned for a uniform grid x and a series y of
\* the same length is a sum of distinct flags from {1, 10, 100, 1000}, each
\* added at most once: 1 iff rho < 0, 10 iff a DOFr < 3 was computed, 100 iff
\* rho could not be estimated, 1000 iff fewer than 3 points were available.
C8_IrregularityCodeFlags ==
    (pc = "return" /\ x = uniform(Len(y))) =>
        /\ fr.irrc < 10000
        /\ \A k \in {1, 10, 100, 1000} : Flag(fr.irrc, k) \in {0, 1}
        /\ Flag(fr.irrc, 1) = 1 <=> (fr.rho.t = "corr" /\ fr.rho.c < 0)
        /\ Flag(fr.irrc, 10) = 1 <=> (fr.DOFr.na > 0 /\ DOFLess(fr.DOFr, 3))
        /\ Flag(fr.irrc, 100) = 1 <=> (fr.Na >= 3 /\ fr.rho.t = "nan")
        /\ Flag(fr.irrc, 1000) = 1 <=> fr.Na < 3

\* C9: the call raises if and only if x and y have different lengths; for
\* every equal-length input it returns a result and never raises.
C9_RaisesIffLengthsDiffer ==
    (pc \in {"return", "raise", "crash"}) =>
        /\ (pc = "raise") <=> (Len(x) # Len(y))
        /\ (Len(x) = Len(y)) => pc = "return"

IsLinear(ys) ==
    /\ \A i \in 1..Len(ys) : ~IsNaN(ys[i])
    /\ \A i \in 1..(Len(ys) - 2) : ys[i + 1].n - ys[i].n = ys[i + 2].n - ys[i + 1].n

\* C11: for a noise-free series y = a + b * t on a uniform grid of at least 3
\* points, series through 0 or identically 0 included, the slope returned
\* equals b and the intercept equals a.
C11_TrendRecovery ==
    (/\ pc \in {"return", "raise", "crash"}
     /\ Len(y) >= 3
     /\ x = uniform(Len(y))
     /\ IsLinear(y)) =>
        LET slope == y[2].n - y[1].n
        IN /\ pc = "return"
           /\ fr.b = Num(slope)
           /\ fr.a = Num(y[1].n - slope * x[1])

----------------------------------------------------------------------------
(***************************************************************************)
(* Properties of compute_trend, checked under SpecApi.                     *)
(***************************************************************************)

\* The slope of cell c as a call with the flag as_decadal scales it.
Scaled(c, as_decadal) ==
    IF as_decadal THEN times10(float32(cell_fit[c].b)) ELSE float32(cell_fit[c].b)

\* C12: after compute_trend returns, no cell has a NaN trend together with a
\* defined p-value: the trend of every such cell is 0; a cell whose p-value
\* is NaN keeps its trend value.
C12_NoNaNTrendWithDefinedPValue ==
    \A k \in 1..Len(results) : \A c \in Cells :
        LET r == results[k]
        IN /\ ~(IsNaN(r.trend[c]) /\ ~IsNaN(r.p_value[c]))
           /\ (IsNaN(cell_fit[c].b) /\ ~IsNaN(r.p_value[c])) => r.trend[c] = Num(0)
           /\ IsNaN(r.p_value[c]) => r.trend[c] = Scaled(c, r.as_decadal)

\* C12 witness: a call has returned for a dataset with a cell of NaN slope and
\* defined p-value and a cell of NaN slope and NaN p-value.
C12_Witness ==
    /\ Len(results) >= 1
    /\ \E c \in Cells : IsNaN(cell_fit[c].b) /\ ~IsNaN(cell_fit[c].pval)
                        /\ results[1].trend[c] = Num(0)
    /\ \E c \in Cells : IsNaN(cell_fit[c].b) /\ IsNaN(cell_fit[c].pval)
                        /\ IsNaN(results[1].trend[c])

\* C13: on the same dataset a call with as_decadal = True returns at every
\* cell 10 times the slope a call with as_decadal = False returns, and the
\* same p-value; the units of the result are the variable's original units
\* followed by "decade -1", respectively "year -1", also for a call made
\* after another call on the same dataset object.
C13_DecadalIsTenTimesYearly ==
    /\ \A i, j \in 1..Len(results) :
          (results[i].as_decadal /\ ~results[j].as_decadal) =>
              \A c \in Cells :
                  /\ results[i].trend[c] = times10(results[j].trend[c])
                  /\ results[i].p_value[c] = results[j].p_value[c]
    /\ Len(results) >= 1 =>
          dict_get(attrs, S_units, <<>>) =
              dict_get(attrs0, S_units, <<>>)
                  \o (IF results[Len(results)].as_decadal THEN S_decade ELSE S_year)

----------------------------------------------------------------------------
(***************************************************************************)
(* Properties of the time filters and the time aggregation, checked under  *)
(* SpecTime.                                                               *)
(***************************************************************************)

\* The season-year of a timestamp: January and February count with the
\* December before them.
SeasonYear(t) == IF t.month \in {1, 2} THEN t.year - 1 ELSE t.year

\* C14: in the aggregation by season a December timestamp of year Y and the
\* January and February timestamps of year Y + 1 are in the same group, keyed
\* by 1 December of Y; timestamps of different season-years never share a
\* group; the time label get_time_series writes for the group is 1 January of Y.
C14_SeasonYearWrap ==
    (tpc = "done" /\ time_filter.units = "season") =>
        \A i, j \in 1..Len(ts.filtered) :
            LET ti == ts.filtered[i]
                tj == ts.filtered[j]
            IN /\ (ti.month = 12 /\ tj.month \in {1, 2} /\ tj.year = ti.year + 1) =>
                     /\ ts.group_list[i] = datetime(ti.year, 12, 1)
                     /\ ts.group_list[j] = datetime(ti.year, 12, 1)
                     /\ \E k \in 1..Len(ts.aggtime) :
                           /\ ts.aggtime[k] = datetime(ti.year, 12, 1)
                           /\ ts.time[k] = datetime(ti.year, 1, 1)
               /\ ts.group_list[i] = ts.group_list[j] => SeasonYear(ti) = SeasonYear(tj)

\* C14 witness: a DJF series with the December of one year and the January
\* and February of the next has been aggregated.
C14_Witness ==
    /\ tpc = "done"
    /\ time_filter.freq = "DJF"
    /\ \E i, j, k \in 1..Len(ts.filtered) :
          /\ ts.filtered[i].month = 12
          /\ ts.filtered[j].month = 1 /\ ts.filtered[j].year = ts.filtered[i].year + 1
          /\ ts.filtered[k].month = 2 /\ ts.filtered[k].year = ts.filtered[i].year + 1
    /\ Len(ts.aggtime) >= 2

\* C15: get_time_filters returns exactly the five filters year, MAM, JJA, SON,
\* DJF; get_minvalues returns 28 / 80 / 354 for month / season / year with
\* daily source data and 1 / 3 / 12 with monthly source data; every other
\* combination of unit and cadence ends in an error.
C15_FiltersAndThresholds ==
    /\ tcall.op = "get_time_filters" =>
          /\ tcall.out.kind = "return"
          /\ Len(tcall.out.val) = 5
          /\ [i \in 1..5 |-> tcall.out.val[i].freq] = <<"year", "MAM", "JJA", "SON", "DJF">>
          /\ [i \in 1..5 |-> tcall.out.val[i].units] =
                 <<"year", "season", "season", "season", "season">>
    /\ tcall.op = "get_minvalues" =>
          LET u == tcall.units
              f == tcall.original_freq
              expected ==
                  IF f = "daily" /\ u = "month" THEN 28
                  ELSE IF f = "daily" /\ u = "season" THEN 80
                  ELSE IF f = "daily" /\ u = "year" THEN 354
                  ELSE IF f = "monthly" /\ u = "month" THEN 1
                  ELSE IF f = "monthly" /\ u = "season" THEN 3
                  ELSE IF f = "monthly" /\ u = "year" THEN 12
                  ELSE 0
          IN IF expected # 0
             THEN tcall.out = [kind |-> "return", val |-> expected]
             ELSE tcall.out.kind = "raise"

\* C15 witness: get_minvalues has ended in an error for an unknown unit with
\* a known cadence.
C15_Witness ==
    /\ tcall.op = "get_minvalues"
    /\ tcall.units = "day"
    /\ tcall.original_freq = "monthly"
    /\ tcall.out.kind = "raise"

----------------------------------------------------------------------------
(***************************************************************************)
(* Properties of slice_period, checked under SpecSlice.                    *)
(***************************************************************************)

\* The calendar year of t is one of the years of the period.
InPeriod(t) == period[1] <= t.year /\ t.year <= period[2]

\* C16: slice_period raises EmptySliceError exactly when no time point of the
\* dataset falls in the period; otherwise it returns a non-empty slice all of
\* whose time points lie within [start_year-01-01, end_year-12-31].
C16_EmptySliceExactlyWhenNoPoint ==
    (sl_ret.kind # "none") =>
        /\ (sl_ret.kind = "raise") <=> ~(\E i \in 1..Len(sl_time) : InPeriod(sl_time[i]))
        /\ sl_ret.kind = "raise" => sl_ret.val = "EmptySliceError"
        /\ sl_ret.kind = "return" =>
              /\ Len(sl_ret.val) > 0
              /\ \A k \in 1..Len(sl_ret.val) : InPeriod(sl_ret.val[k])

\* C17: every time point of the dataset whose calendar year lies between
\* start_year and end_year is in the slice returned, the time points stamped
\* on 31 December of end_year at any time of day included.
C17_InclusiveYearBounds ==
    (sl_ret.kind = "return") =>
        \A i \in 1..Len(sl_time) :
            InPeriod(sl_time[i]) => \E k \in 1..Len(sl_ret.val) : sl_ret.val[k] = sl_time[i]

----------------------------------------------------------------------------
(***************************************************************************)
(* Properties of get_member_dataset, checked under SpecFetch.              *)
(***************************************************************************)

\* C19: when the first fetch for a member and variable raises KeyError, the
\* fetch function is called exactly one more time, with the fixed member and
\* raw variable name; it is called at most twice, and exactly once when the
\* first fetch succeeds; for Member objects as well as for member strings.
C19_ExactlyOneRetry ==
    (fetched.kind # "none") =>
        LET first_found ==
                <<member_key(request.member), request.rawname>> \in catalogue
        IN /\ Len(fetched.calls) <= 2
           /\ fetched.calls[1] = <<member_key(request.member), request.rawname>>
           /\ first_found => Len(fetched.calls) = 1
           /\ ~first_found => Len(fetched.calls) = 2

----------------------------------------------------------------------------
(***************************************************************************)
(* Properties of the product runs, checked under SpecRun.                  *)
(***************************************************************************)

\* The dataset of member m, filtered by tf, has no time point in period k of
\* all_list.
EmptyPeriod(m, tf, k) ==
    \A t \in Range(filter_time_axis(rn_in.members[m].axis, tf).val) :
        ~(all_list[k][1] <= t.year /\ t.year <= all_list[k][2])

\* C18: EmptySliceError never aborts a decadal run: whenever a period has no
\* time point for a member and time filter, the fragment of that member,
\* filter and period is the all-missing placeholder and the run goes on.
C18_EmptySliceNeverAborts ==
    (rn.pc # "idle" /\ rn_in.fun = "decadal") =>
        /\ \A k \in 1..Len(rn.fragments) :
              LET f == rn.fragments[k]
              IN (f.fill = "nan") <=> EmptyPeriod(f.member, f.time_filter, f.period)
        /\ (rn.pc = "aborted" /\ rn.fi > 0) =>
              ~EmptyPeriod(rn.mi, get_time_filters[rn.fi], rn.pi)

\* C20: if the output file exists when the function is called with
\* clobber = False, the call returns without opening the catalogue, fetching
\* a member, or creating, modifying or deleting a file.
C20_ExistingOutputShortCircuits ==
    [][(rn.pc = "start" /\ fsys.exists /\ ~rn_in.clobber) =>
           (rn'.pc = "returned" /\ fsys' = fsys /\ effects' = effects)]_vars

\* C20 witness: a second call with clobber = False has returned after the
\* first call wrote the output.
C20_Witness ==
    /\ rn.pc = "returned"
    /\ rn.calls = 2
    /\ ~rn_in.clobber
    /\ fsys = [exists |-> TRUE, content |-> 1]
    /\ effects = [catalogue_opens |-> 1, fetches |-> NMembers, writes |-> 1]

(***************************************************************************)
(* Output writes.                                                          *)
(***************************************************************************)
\* C21: during and after a call of safe_to_netcdf or safe_to_zarr, crashed or
\* not, the final output path is absent, or holds the complete previous
\* output, or holds the complete new output.
C21_FinalPathNeverHalfWritten ==
    wr.pc # "idle" => wr.final \in {Absent, Complete("old"), Complete("new")}

(***************************************************************************)
(* The merged decadal product.                                             *)
(***************************************************************************)
\* The value of the fragment collected for member m, time filter tf and the
\* period p.
FragmentValue(m, tf, p) ==
    LET i == CHOOSE i \in DOMAIN rn.fragments :
                 /\ rn.fragments[i].member = m
                 /\ rn.fragments[i].time_filter = tf
                 /\ all_list[rn.fragments[i].period] = p
    IN rn.fragments[i].value

\* C22: in the merged output of a "clim" decadal product the reference-period
\* label exists; the anomaly at the reference label is 0 wherever the
\* variable is valid there, and at every other period it is the period value
\* minus the reference-period value of the same member and time filter.
C22_AnomalyLaw ==
    (rn.pc = "returned" /\ rn_in.fun = "decadal" /\ rn_in.product = "clim"
        /\ rn.final_dataset # <<>>) =>
        LET ds == rn.final_dataset
            ref == all_list[1]
        IN /\ \E k \in DOMAIN ds.var : k[3] = <<ref[1], ref[2]>>
           /\ rn.exc = "none"
           /\ \A m \in 1..NMembers, tf \in Range(get_time_filters),
                 j \in 1..Len(all_list) :
                 LET k == <<m, tf, <<all_list[j][1], all_list[j][2]>>>>
                     v == FragmentValue(m, tf, all_list[j])
                     v0 == FragmentValue(m, tf, ref)
                 IN /\ k \in DOMAIN ds.anom
                    /\ ds.var[k] = v
                    /\ (j = 1 /\ ~IsNaN(v)) => ds.anom[k] = Num(0)
                    /\ j # 1 => ds.anom[k] = FSub(v, v0)

\* C22 witness: a "clim" decadal run has returned with an anomaly of 2 and a
\* missing anomaly next to the zero anomalies of the reference period.
C22_Witness ==
    /\ rn.pc = "returned"
    /\ rn_in.fun = "decadal"
    /\ rn_in.product = "clim"
    /\ rn.final_dataset # <<>>
    /\ \E k \in DOMAIN rn.final_dataset.anom : rn.final_dataset.anom[k] = Num(2)
    /\ \E k \in DOMAIN rn.final_dataset.anom : IsNaN(rn.final_dataset.anom[k])
    /\ \E k \in DOMAIN rn.final_dataset.anom :
          k[3] = <<FirstYear, FirstYear>> /\ rn.final_dataset.anom[k] = Num(0)

\* The fragments a complete decadal run collects, in the order of the loops.
ExpectedFragment(i) ==
    LET L == Len(all_list)
        F == Len(get_time_filters)
    IN [member |-> ((i - 1) \div (F * L)) + 1,
        time_filter |-> get_time_filters[(((i - 1) \div L) % F) + 1],
        label |-> <<all_list[((i - 1) % L) + 1][1], all_list[((i - 1) % L) + 1][2]>>]

\* C23: in get_model_decadal_product the fragments are collected member by
\* member in list order, one for each combination of the 5 time filters and
\* the periods of [reference_period] + periods, computed or placeholder, each
\* carrying its member, period label and filter; the merge and the single
\* write happen only after the fragments of the last member are collected.
C23_OneFragmentPerCombinationThenWrite ==
    [][rn_in.fun = "decadal" =>
          /\ \A i \in DOMAIN rn'.fragments :
                /\ rn'.fragments[i].member = ExpectedFragment(i).member
                /\ rn'.fragments[i].time_filter = ExpectedFragment(i).time_filter
                /\ rn'.fragments[i].label = ExpectedFragment(i).label
                /\ rn'.fragments[i].fill \in {"data", "nan"}
          /\ Len(rn'.fragments) <= Len(rn.fragments) + 1
          /\ (effects'.writes # effects.writes \/ fsys' # fsys
                \/ (rn'.final_dataset # rn.final_dataset /\ rn'.final_dataset # <<>>)) =>
                /\ Len(rn.fragments) = NMembers * Len(get_time_filters) * Len(all_list)
                /\ rn'.fragments = rn.fragments
                /\ effects'.writes = effects.writes + 1
                /\ rn'.pc = "returned"]_vars

\* C23 witness: a decadal run has written its output after collecting every
\* fragment, placeholders among them.
C23_Witness ==
    /\ rn.pc = "returned"
    /\ rn_in.fun = "decadal"
    /\ effects.writes = 1
    /\ Len(rn.fragments) = NMembers * Len(get_time_filters) * Len(all_list)
    /\ \E i \in DOMAIN rn.fragments : rn.fragments[i].fill = "nan"
    /\ \E i \in DOMAIN rn.fragments : rn.fragments[i].fill = "data"

\* C29: a call that raised has neither created nor modified the output
\* file, and a call with clobber = False made after it returns an existing
\* output only if that output is not from the call that raised.
C29_AbortLeavesNoProduct ==
    /\ [][rn'.pc = "aborted" => fsys' = fsys]_vars
    /\ [](rn.pc = "aborted" => fsys.content # rn.calls)
    /\ []((rn.pc = "returned" /\ rn.prev = "aborted")
          => /\ ~rn_in.clobber
             /\ fsys.content # rn.calls - 1
             /\ (fsys.content # rn.calls => fsys.exists))

\* C29 witness: the first call raised without an output file, and the next
\* call, with clobber = False, is past the existence check and fetching.
C29_Witness ==
    /\ rn.prev = "aborted"
    /\ rn.pc = "member"
    /\ ~rn_in.clobber
    /\ ~fsys.exists

====
